---- MODULE Spec2Model ----
(***************************************************************************)
(* A model of clonebot's ingestion pipeline: the chunker                   *)
(* (memory/chunker.py), the file type validator (memory/validate.py), the  *)
(* per-file and per-directory ingestion (memory/ingest.py) and the video   *)
(* extraction helpers (media/video.py).                                    *)
(*                                                                         *)
(* A Python str is a sequence of one-character strings; a bytes object is  *)
(* a sequence of integers 0..255; a dict is a function from its keys.      *)
(***************************************************************************)
EXTENDS Integers, Sequences, FiniteSets, TLC

VARIABLES
    ct,         \* the frame of one chunk_text call (memory/chunker.py)
    vf,         \* the frame of one validate_file_type call (memory/validate.py)
    cc,         \* the frame of one chunk_chat_messages call (memory/chunker.py)
    ing,        \* the frame of one ingest_file call (memory/ingest.py)
    dir,        \* the frame of one ingest_directory call (memory/ingest.py)
    tmpfs,      \* the temporary directories made by tempfile.mkdtemp and those still on disk
    settings,   \* what get_settings() returns (config/settings.py)
    ef,         \* the frame of one extract_frames call (media/video.py)
    cli,        \* the frame of one run of the chat command (cli.py)
    sess        \* a ChatSession and the call of chat or chat_stream in progress (core/session.py)

vars == <<ct, vf, cc, ing, dir, tmpfs, settings, ef, cli, sess>>

-----------------------------------------------------------------------------
(* Bounds of the model *)

MaxTextLen == 7     \* characters of the text given to chunk_text
MaxSize == 3        \* largest chunk_size tried
MaxOverlap == 3     \* largest overlap tried
MaxChunks == 6      \* iterations of a _split_long_text loop that does not advance, before the model stops following it
MaxMsgs == 3        \* messages given to chunk_chat_messages
MaxChatSize == 6    \* largest chunk_size given to chunk_chat_messages
MaxFrames == 2      \* largest video_max_frames setting and largest frame count of a video
MaxDirFiles == 3    \* entries of an ingested directory
MaxLines == 4       \* lines of a text file given to _ingest_text
MaxPad == 16        \* ASCII bytes between the first bytes and the last bytes of a file
MaxFairLen == 6     \* characters of the text given to chunk_text where its termination is checked
MaxCalls == 3       \* calls of chat and chat_stream made on a session
MaxFragments == 2   \* fragments a provider's stream yields
MaxMaxHistory == 3  \* largest max_history of a session
MaxTotalFrames == 100   \* largest frame count of a video given to extract_frames
MaxFramesArg == 24      \* largest max_frames given to extract_frames

-----------------------------------------------------------------------------
(* Python str and list primitives used by the code *)

\* str.isspace() on the characters of the model's alphabet
IsSpace(c) == c \in {" ", "\n"}

Min(a, b) == IF a < b THEN a ELSE b
Max(a, b) == IF a > b THEN a ELSE b

\* seq[start:end] with Python's clamping and negative indices (0-based, end exclusive)
PySlice(seq, start, end) ==
    LET n == Len(seq)
        s == IF start < 0 THEN Max(n + start, 0) ELSE Min(start, n)
        e == IF end < 0 THEN Max(n + end, 0) ELSE Min(end, n)
    IN  IF s >= e THEN <<>> ELSE SubSeq(seq, s + 1, e)

\* seq[-k:] for k > 0
PyTail(seq, k) == PySlice(seq, -k, Len(seq))

RECURSIVE LStrip(_)
LStrip(s) == IF s /= <<>> /\ IsSpace(Head(s)) THEN LStrip(Tail(s)) ELSE s

RECURSIVE RStrip(_)
RStrip(s) ==
    IF s /= <<>> /\ IsSpace(s[Len(s)]) THEN RStrip(SubSeq(s, 1, Len(s) - 1)) ELSE s

\* str.strip()
Strip(s) == RStrip(LStrip(s))

\* str.split(): the maximal runs of non-whitespace characters
RECURSIVE SplitWordsFrom(_, _, _)
SplitWordsFrom(s, i, word) ==
    IF i > Len(s)
    THEN IF word = <<>> THEN <<>> ELSE <<word>>
    ELSE IF IsSpace(s[i])
         THEN IF word = <<>>
              THEN SplitWordsFrom(s, i + 1, <<>>)
              ELSE <<word>> \o SplitWordsFrom(s, i + 1, <<>>)
         ELSE SplitWordsFrom(s, i + 1, Append(word, s[i]))

SplitWords(s) == SplitWordsFrom(s, 1, <<>>)

\* str.split(sep) for a non-empty separator: always at least one piece
RECURSIVE SplitOnFrom(_, _, _, _)
SplitOnFrom(s, sep, i, piece) ==
    IF i > Len(s)
    THEN <<piece>>
    ELSE IF i + Len(sep) - 1 <= Len(s) /\ SubSeq(s, i, i + Len(sep) - 1) = sep
         THEN <<piece>> \o SplitOnFrom(s, sep, i + Len(sep), <<>>)
         ELSE SplitOnFrom(s, sep, i + 1, Append(piece, s[i]))

SplitOn(s, sep) == SplitOnFrom(s, sep, 1, <<>>)

\* sep.join(parts)
RECURSIVE Join(_, _)
Join(sep, parts) ==
    IF parts = <<>> THEN <<>>
    ELSE IF Len(parts) = 1 THEN parts[1]
    ELSE parts[1] \o sep \o Join(sep, Tail(parts))

\* {**d, k: v}
DictSet(d, k, v) == [x \in DOMAIN d \cup {k} |-> IF x = k THEN v ELSE d[x]]

\* d.get(k, default)
DictGet(d, k, default) == IF k \in DOMAIN d THEN d[k] ELSE default

EmptyDict == [x \in {} |-> ""]

-----------------------------------------------------------------------------
(* memory/chunker.py *)

\* Chunk(text=..., metadata=base_meta): the chunk holds the base_meta object
\* itself, not a dict of its own
ChunkSharingMeta(text, metadata) ==
    [text |-> text, metadata |-> metadata, meta_ref |-> "base_meta"]

\* Chunk(text=..., metadata={**base_meta}): the dict display builds a new dict
\* with the items of base_meta, and the chunk is the only holder of it.
\* meta_ref names the object the metadata field refers to.
Chunk(text, metadata) ==
    [text |-> text, metadata |-> metadata, meta_ref |-> "new"]

\* paragraphs = [p.strip() for p in text.split("\n\n") if p.strip()]
Paragraphs(text) ==
    LET pieces == SplitOn(text, <<"\n", "\n">>)
        F[i \in 0..Len(pieces)] ==
            IF i = 0 THEN <<>>
            ELSE IF Strip(pieces[i]) /= <<>> THEN Append(F[i - 1], Strip(pieces[i]))
                 ELSE F[i - 1]
    IN  F[Len(pieces)]

\* for i, chunk in enumerate(chunks): chunk.metadata["chunk_index"] = str(i)
AddChunkIndexOffByOne(chunks) ==
    [i \in 1..Len(chunks) |->
        [chunks[i] EXCEPT !.metadata = DictSet(@, "chunk_index", ToString(i))]]

\* The position of the last chunk that holds the base_meta object, 0 if none
LastSharing(chunks) ==
    LET sharing == { i \in 1..Len(chunks) : chunks[i].meta_ref = "base_meta" }
    IN  IF sharing = {} THEN 0 ELSE CHOOSE i \in sharing : \A j \in sharing : j <= i

\* The assignment writes into the object chunk.metadata refers to: a dict held
\* by several chunks keeps the index written last, under every holder.
AddChunkIndex(chunks) ==
    [i \in 1..Len(chunks) |->
        [chunks[i] EXCEPT !.metadata =
            DictSet(@, "chunk_index",
                    ToString(IF chunks[i].meta_ref = "base_meta"
                             THEN LastSharing(chunks) - 1
                             ELSE i - 1))]]

\* The base_meta object once the chunk_index pass has run over chunks
BaseMetaAfter(base_meta, chunks) ==
    IF LastSharing(chunks) = 0 THEN base_meta
    ELSE chunks[LastSharing(chunks)].metadata

\* base_meta = metadata or {}: base_meta is the caller's mapping itself when
\* that mapping is non-empty, else a new empty dict. The caller's mapping
\* after the call that left base_meta as given.
CallerMetaAfter(metadata, base_meta) ==
    IF metadata /= EmptyDict THEN base_meta ELSE metadata

\* overlap_text = " ".join(current.split()[-overlap:]) if overlap > 0 else ""
OverlapTextOneMore(current, overlap) ==
    IF overlap > 0 THEN Join(<<" ">>, PyTail(SplitWords(current), overlap + 1)) ELSE <<>>

OverlapText(current, overlap) ==
    IF overlap > 0 THEN Join(<<" ">>, PyTail(SplitWords(current), overlap)) ELSE <<>>

\* the window step going back by the whole window
NextStartStuck(start, chunk_size, overlap) ==
    LET end == start + chunk_size
    IN  IF overlap > 0 THEN end - chunk_size ELSE end

\* the window step leaving out the word after the window
NextStartSkipping(start, chunk_size, overlap) ==
    LET end == start + chunk_size
    IN  IF overlap > 0 THEN end - overlap ELSE end + 1

\* the window step of _split_long_text: start = end - overlap if overlap > 0 else end
NextStart(start, chunk_size, overlap) ==
    LET end == start + chunk_size
    IN  IF overlap > 0 THEN end - overlap ELSE end

\* chunk_text = " ".join(words[start:end])
Window(words, start, chunk_size) ==
    Join(<<" ">>, PySlice(words, start, start + chunk_size))

\* the final flush of chunk_text: if current.strip(): chunks.append(...)
FinalFlushUnguarded(chunks, current, base_meta) ==
    Append(chunks, Chunk(Strip(current), base_meta))

FinalFlush(chunks, current, base_meta) ==
    IF Strip(current) /= <<>>
    THEN Append(chunks, Chunk(Strip(current), base_meta))
    ELSE chunks

\* The frame of a call that has not been made
NoCall == [pc |-> "idle"]

\* No temporary directory was made yet
NoTempDirs == [made |-> 0, live |-> {}]

\* Settings(): chunk_size = 500, chunk_overlap = 50, video_max_frames = 5
DefaultSettings == [chunk_size |-> 500, chunk_overlap |-> 50, video_max_frames |-> 5]

\* A chunk_text call with its arguments, before its first statement
ChunkTextCall(text, chunk_size, overlap, metadata) ==
    [pc |-> "call", text |-> text, chunk_size |-> chunk_size, overlap |-> overlap,
     metadata |-> metadata, base_meta |-> metadata, paragraphs |-> <<>>, i |-> 1,
     current |-> <<>>, current_words |-> 0, chunks |-> <<>>,
     words |-> <<>>, start |-> 0, split_chunks |-> <<>>, result |-> <<>>]

\* The texts of at most n characters: a letter is written with the letter of
\* its position, so that every word of a text is told apart from the others.
Letters == <<"a", "b", "c", "d", "e", "f", "g", "h", "i", "j", "k", "l">>

TextsOfLen(n) ==
    { [i \in 1..n |-> IF shape[i] = "w" THEN Letters[i] ELSE shape[i]] :
        shape \in [1..n -> {"w", " ", "\n"}] }

BaseMeta == [source |-> "memo.txt"]

InitChunk ==
    /\ \E n \in 0..MaxTextLen, size \in 0..MaxSize, ov \in 0..MaxOverlap :
        \E text \in TextsOfLen(n) :
            ct = ChunkTextCall(text, size, ov, BaseMeta)
    /\ vf = NoCall /\ cc = NoCall /\ ing = NoCall /\ dir = NoCall
    /\ tmpfs = NoTempDirs
    /\ ef = NoCall /\ cli = NoCall /\ sess = NoCall
    /\ settings = DefaultSettings

\* lines 19-27: the early return on a blank text, else the paragraph split
ChunkTextEnter ==
    /\ ct.pc = "call"
    /\ IF Strip(ct.text) = <<>>
       THEN ct' = [ct EXCEPT !.pc = "done", !.result = <<>>]
       ELSE ct' = [ct EXCEPT !.pc = "loop", !.paragraphs = Paragraphs(ct.text)]

\* lines 33-38: a paragraph longer than chunk_size flushes the accumulator
\* and enters _split_long_text
ParaOversized ==
    /\ ct.pc = "loop"
    /\ ct.i <= Len(ct.paragraphs)
    /\ LET para == ct.paragraphs[ct.i]
           para_words == Len(SplitWords(para))
       IN  /\ para_words > ct.chunk_size
           /\ ct' = [ct EXCEPT
                  !.chunks = IF ct.current /= <<>>
                             THEN Append(@, Chunk(Strip(ct.current), ct.base_meta))
                             ELSE @,
                  !.current = <<>>,
                  !.current_words = 0,
                  !.words = SplitWords(para),
                  !.start = 0,
                  !.split_chunks = <<>>,
                  !.pc = "split"]

\* lines 114-118: one iteration of the while loop of _split_long_text
SplitWindow ==
    /\ ct.pc = "split"
    /\ ct.start < Len(ct.words)
    /\ \/ Len(ct.split_chunks) < MaxChunks
       \/ NextStart(ct.start, ct.chunk_size, ct.overlap) > ct.start
    /\ ct' = [ct EXCEPT
           !.split_chunks = Append(@, Chunk(Window(ct.words, ct.start, ct.chunk_size),
                                            ct.base_meta)),
           !.start = NextStart(ct.start, ct.chunk_size, ct.overlap)]

\* line 120 and lines 38-39: _split_long_text returns, chunks.extend(...), continue
SplitReturn ==
    /\ ct.pc = "split"
    /\ ~(ct.start < Len(ct.words))
    /\ ct' = [ct EXCEPT !.chunks = @ \o ct.split_chunks, !.i = @ + 1, !.pc = "loop"]

\* lines 41-49: a paragraph of at most chunk_size words joins the accumulator,
\* after a flush when it would overfill it
ParaFits ==
    /\ ct.pc = "loop"
    /\ ct.i <= Len(ct.paragraphs)
    /\ LET para == ct.paragraphs[ct.i]
           para_words == Len(SplitWords(para))
       IN  /\ ~(para_words > ct.chunk_size)
           /\ IF ct.current_words + para_words > ct.chunk_size /\ ct.current /= <<>>
              THEN LET overlap_text == OverlapText(ct.current, ct.overlap)
                       current == IF overlap_text /= <<>>
                                  THEN overlap_text \o <<"\n", "\n">> \o para
                                  ELSE para
                   IN  ct' = [ct EXCEPT
                           !.chunks = Append(@, Chunk(Strip(ct.current), ct.base_meta)),
                           !.current = current,
                           !.current_words = Len(SplitWords(current)),
                           !.i = @ + 1]
              ELSE ct' = [ct EXCEPT
                       !.current = IF ct.current /= <<>>
                                   THEN ct.current \o <<"\n", "\n">> \o para
                                   ELSE para,
                       !.current_words = @ + para_words,
                       !.i = @ + 1]

\* lines 51-58: the final flush, the chunk_index pass and the return
ChunkTextReturn ==
    /\ ct.pc = "loop"
    /\ ct.i > Len(ct.paragraphs)
    /\ LET chunks == AddChunkIndex(FinalFlush(ct.chunks, ct.current, ct.base_meta))
           base_meta == BaseMetaAfter(ct.base_meta, chunks)
       IN  ct' = [ct EXCEPT !.chunks = chunks, !.result = chunks, !.pc = "done",
                            !.base_meta = base_meta,
                            !.metadata = CallerMetaAfter(@, base_meta)]

ChunkTextStep ==
    \/ ChunkTextEnter
    \/ ParaOversized
    \/ SplitWindow
    \/ SplitReturn
    \/ ParaFits
    \/ ChunkTextReturn

\* what a step of chunk_text leaves alone
ChunkFrame == <<vf, cc, ing, dir, tmpfs, settings, ef, cli, sess>>

NextChunk ==
    \/ ChunkTextEnter /\ UNCHANGED ChunkFrame
    \/ ParaOversized /\ UNCHANGED ChunkFrame
    \/ SplitWindow /\ UNCHANGED ChunkFrame
    \/ SplitReturn /\ UNCHANGED ChunkFrame
    \/ ParaFits /\ UNCHANGED ChunkFrame
    \/ ChunkTextReturn /\ UNCHANGED ChunkFrame

SpecChunk == InitChunk /\ [][NextChunk]_vars

\* chunk_text runs in one thread that nothing suspends: a call that can take
\* a step takes it
\* The texts whose termination is checked begin and end with a word: the
\* blanks around a text are stripped with those around its paragraphs.
InitChunkFair ==
    /\ \E n \in 0..MaxFairLen, size \in 0..MaxSize, ov \in 0..MaxOverlap :
        \E text \in TextsOfLen(n) :
            /\ text = Strip(text)
            /\ ct = ChunkTextCall(text, size, ov, BaseMeta)
    /\ vf = NoCall /\ cc = NoCall /\ ing = NoCall /\ dir = NoCall
    /\ tmpfs = NoTempDirs
    /\ ef = NoCall /\ cli = NoCall /\ sess = NoCall
    /\ settings = DefaultSettings

SpecChunkFair == InitChunkFair /\ [][NextChunk]_vars /\ WF_vars(NextChunk)

-----------------------------------------------------------------------------
(* chunk_chat_messages, memory/chunker.py *)

\* line = f"[{timestamp}] {speaker}: {text}" if timestamp else f"{speaker}: {text}"
ChatLine(msg) ==
    LET speaker == DictGet(msg, "speaker", <<"Unknown">>)
        text == DictGet(msg, "text", <<>>)
        timestamp == DictGet(msg, "timestamp", <<>>)
    IN  IF timestamp /= <<>>
        THEN <<"[">> \o timestamp \o <<"]", " ">> \o speaker \o <<":", " ">> \o text
        ELSE speaker \o <<":", " ">> \o text

ChatChunk(current_lines, base_meta) ==
    Chunk(Join(<<"\n">>, current_lines), DictSet(base_meta, "type", "chat"))

\* the loop of lines 75-92 flushing before every message, whatever the size
RECURSIVE ChatLoopFlushAlways(_, _, _, _)
ChatLoopFlushAlways(messages, k, chunk_size, st) ==
    IF k > Len(messages) THEN st
    ELSE LET line == ChatLine(messages[k])
             line_words == Len(SplitWords(line))
             flushed == IF st.current_lines /= <<>>
                        THEN [chunks |-> Append(st.chunks,
                                                ChatChunk(st.current_lines, st.base_meta)),
                              current_lines |-> <<>>, current_words |-> 0,
                              base_meta |-> st.base_meta]
                        ELSE st
         IN  ChatLoopFlushAlways(messages, k + 1, chunk_size,
                      [flushed EXCEPT !.current_lines = Append(@, line),
                                      !.current_words = @ + line_words])

\* lines 75-92: the loop over the messages from message k on; the state is
\* the chunks flushed so far and the lines and word count accumulated
RECURSIVE ChatLoop(_, _, _, _)
ChatLoop(messages, k, chunk_size, st) ==
    IF k > Len(messages) THEN st
    ELSE LET line == ChatLine(messages[k])
             line_words == Len(SplitWords(line))
             flushed == IF st.current_words + line_words > chunk_size
                           /\ st.current_lines /= <<>>
                        THEN [chunks |-> Append(st.chunks,
                                                ChatChunk(st.current_lines, st.base_meta)),
                              current_lines |-> <<>>, current_words |-> 0,
                              base_meta |-> st.base_meta]
                        ELSE st
         IN  ChatLoop(messages, k + 1, chunk_size,
                      [flushed EXCEPT !.current_lines = Append(@, line),
                                      !.current_words = @ + line_words])

\* chunk_chat_messages(messages, chunk_size, metadata)
ChunkChatMessages(messages, chunk_size, metadata) ==
    IF messages = <<>> THEN <<>>
    ELSE LET st == ChatLoop(messages, 1, chunk_size,
                            [chunks |-> <<>>, current_lines |-> <<>>,
                             current_words |-> 0, base_meta |-> metadata])
             chunks == IF st.current_lines /= <<>>
                       THEN Append(st.chunks, ChatChunk(st.current_lines, metadata))
                       ELSE st.chunks
         IN  AddChunkIndex(chunks)

\* The messages of the model: with and without a timestamp, of one and two
\* words, and one without a speaker key
ChatMessages ==
    { [speaker |-> <<"A">>, text |-> <<"h", "i">>],
      [speaker |-> <<"B">>, text |-> <<"o", "k", " ", "A">>, timestamp |-> <<"9">>],
      [speaker |-> <<"A">>, text |-> <<"x", " ", "y", " ", "z">>, timestamp |-> <<>>],
      [text |-> <<"?">>] }

MessageLists(n) == UNION { [1..k -> ChatMessages] : k \in 0..n }

\* a direct call of chunk_chat_messages, with and without a metadata mapping
InitChat ==
    /\ \E messages \in MessageLists(MaxMsgs), size \in 0..MaxChatSize,
          metadata \in {BaseMeta, EmptyDict} :
          cc = [pc |-> "call", messages |-> messages, chunk_size |-> size,
                metadata |-> metadata, result |-> <<>>]
    /\ ct = NoCall /\ vf = NoCall /\ ing = NoCall /\ dir = NoCall
    /\ tmpfs = NoTempDirs
    /\ ef = NoCall /\ cli = NoCall /\ sess = NoCall
    /\ settings = DefaultSettings

ChunkChatMessagesCall ==
    /\ cc.pc = "call"
    /\ LET chunks == ChunkChatMessages(cc.messages, cc.chunk_size, cc.metadata)
       IN  cc' = [cc EXCEPT !.pc = "done",
                           !.result = chunks,
                           !.metadata = CallerMetaAfter(@, BaseMetaAfter(@, chunks))]

NextChat == ChunkChatMessagesCall /\ UNCHANGED <<ct, vf, ing, dir, tmpfs, settings, ef, cli, sess>>

SpecChat == InitChat /\ [][NextChat]_vars

-----------------------------------------------------------------------------
(* _detect_chat_format, memory/ingest.py *)

IsDigit(c) == c \in {"0", "1", "2", "3", "4", "5", "6", "7", "8", "9"}

\* the number of digits of s from position p on (\d*)
RECURSIVE DigitRun(_, _)
DigitRun(s, p) == IF p <= Len(s) /\ IsDigit(s[p]) THEN 1 + DigitRun(s, p + 1) ELSE 0

\* the number of whitespace characters of s from position p on (\s*)
RECURSIVE SpaceRun(_, _)
SpaceRun(s, p) == IF p <= Len(s) /\ IsSpace(s[p]) THEN 1 + SpaceRun(s, p + 1) ELSE 0

\* the first position >= p of s that holds c, or 0
RECURSIVE FindFrom(_, _, _)
FindFrom(s, p, c) ==
    IF p > Len(s) THEN 0 ELSE IF s[p] = c THEN p ELSE FindFrom(s, p + 1, c)

At(s, p, c) == p <= Len(s) /\ s[p] = c

NoMatch == [matched |-> FALSE]

\* ":\s+(.+)" with the colon at position c: the text group, or <<>> when the
\* tail does not match (a greedy \s+ gives one character back to .+ if it must)
ColonTail(s, c) ==
    LET sp == SpaceRun(s, c + 1)
    IN  IF ~At(s, c, ":") \/ sp < 1 THEN <<>>
        ELSE IF c + sp < Len(s) THEN SubSeq(s, c + sp + 1, Len(s))
        ELSE IF sp >= 2 THEN <<s[Len(s)]>>
        ELSE <<>>

\* "\s+(.+?):\s+(.+)" from position p on: the greedy \s+ is tried from its longest
\* match down, the lazy speaker group from its shortest match up
SpeakerAndText(s, p) ==
    LET w == SpaceRun(s, p)
        ok(k, e) == e >= p + k /\ e < Len(s) /\ ColonTail(s, e + 1) /= <<>>
        cands == { ke \in (1..w) \X (p..Len(s)) : ok(ke[1], ke[2]) }
    IN  IF cands = {} THEN NoMatch
        ELSE LET best == CHOOSE ke \in cands :
                            \A o \in cands :
                                \/ ke[1] > o[1]
                                \/ (ke[1] = o[1] /\ ke[2] <= o[2])
             IN  [matched |-> TRUE,
                  speaker |-> SubSeq(s, p + best[1], best[2]),
                  text |-> ColonTail(s, best[2] + 1)]

\* _WHATSAPP_RE.match(line), one operator per piece of the pattern
\* ^\d{1,2}/\d{1,2}/\d{2,4},?\s+\d{1,2}:\d{2}\s*(?:AM|PM|am|pm)?\s*-\s+(.+?):\s+(.+)
\* "-\s+(.+?):\s+(.+)" at position p
WaDash(s, p) == IF At(s, p, "-") THEN SpeakerAndText(s, p + 1) ELSE NoMatch

\* "\s*(?:AM|PM|am|pm)?\s*" at position p, then the rest
WaAmPm(s, p) ==
    LET q == p + SpaceRun(s, p)
        ampm == q + 1 <= Len(s)
                  /\ <<s[q], s[q + 1]>> \in {<<"A", "M">>, <<"P", "M">>,
                                            <<"a", "m">>, <<"p", "m">>}
    IN  WaDash(s, IF ampm THEN q + 2 + SpaceRun(s, q + 2) ELSE q)

\* "\d{1,2}:\d{2}" at position p, then the rest
WaTime(s, p) ==
    LET d == DigitRun(s, p)
    IN  IF d \in 1..2 /\ At(s, p + d, ":") /\ DigitRun(s, p + d + 1) >= 2
        THEN WaAmPm(s, p + d + 3)
        ELSE NoMatch

\* ",?\s+" at position p, then the rest
WaComma(s, p) ==
    LET q == IF At(s, p, ",") THEN p + 1 ELSE p
        sp == SpaceRun(s, q)
    IN  IF sp >= 1 THEN WaTime(s, q + sp) ELSE NoMatch

\* "\d{2,4}" at position p, then the rest
WaYear(s, p) ==
    LET d == DigitRun(s, p)
    IN  IF d \in 2..4 THEN WaComma(s, p + d) ELSE NoMatch

\* "\d{1,2}/" at position p, then the rest
WaMonth(s, p) ==
    LET d == DigitRun(s, p)
    IN  IF d \in 1..2 /\ At(s, p + d, "/") THEN WaYear(s, p + d + 1) ELSE NoMatch

WhatsAppMatch(s) ==
    LET d == DigitRun(s, 1)
    IN  IF d \in 1..2 /\ At(s, d + 1, "/") THEN WaMonth(s, d + 2) ELSE NoMatch

\* "([^:]{1,40}):\s+(.+)" with the speaker group starting at position p
GenericFrom(s, p, timestamp) ==
    LET c == FindFrom(s, p, ":")
    IN  IF c > p /\ c - p <= 40 /\ ColonTail(s, c) /= <<>>
        THEN [matched |-> TRUE, timestamp |-> timestamp,
              speaker |-> SubSeq(s, p, c - 1), text |-> ColonTail(s, c)]
        ELSE NoMatch

\* _GENERIC_CHAT_RE.match(line): ^(?:\[([^\]]+)\]\s+)?([^:]{1,40}):\s+(.+)
\* the optional bracket group is tried first, its \s+ from the longest match down
GenericMatch(s) ==
    LET j == FindFrom(s, 2, "]")
        w == SpaceRun(s, j + 1)
        withTs == { k \in 1..w :
                      GenericFrom(s, j + 1 + k, SubSeq(s, 2, j - 1)).matched }
    IN  IF At(s, 1, "[") /\ j >= 3 /\ withTs /= {}
        THEN LET k == CHOOSE x \in withTs : \A y \in withTs : x >= y
             IN  GenericFrom(s, j + 1 + k, SubSeq(s, 2, j - 1))
        ELSE GenericFrom(s, 1, <<>>)

\* the loop of lines 372-393 with a message for every non-blank line
RECURSIVE ChatScanKeepsAll(_, _)
ChatScanKeepsAll(lines, k) ==
    IF k > Len(lines) THEN <<>>
    ELSE LET line == Strip(lines[k])
             wa == WhatsAppMatch(line)
             gen == GenericMatch(line)
         IN  IF line = <<>> THEN ChatScanKeepsAll(lines, k + 1)
             ELSE IF wa.matched
                  THEN <<[speaker |-> wa.speaker, text |-> wa.text]>>
                          \o ChatScanKeepsAll(lines, k + 1)
             ELSE IF gen.matched
                  THEN <<[timestamp |-> gen.timestamp, speaker |-> gen.speaker,
                          text |-> gen.text]>> \o ChatScanKeepsAll(lines, k + 1)
             ELSE <<[speaker |-> <<"Unknown">>, text |-> line]>>
                     \o ChatScanKeepsAll(lines, k + 1)

\* lines 372-393: the messages of the lines from line k on, in line order
RECURSIVE ChatScan(_, _)
ChatScan(lines, k) ==
    IF k > Len(lines) THEN <<>>
    ELSE LET line == Strip(lines[k])
             wa == WhatsAppMatch(line)
             gen == GenericMatch(line)
         IN  IF line = <<>> THEN ChatScan(lines, k + 1)
             ELSE IF wa.matched
                  THEN <<[speaker |-> wa.speaker, text |-> wa.text]>>
                          \o ChatScan(lines, k + 1)
             ELSE IF gen.matched
                  THEN <<[timestamp |-> gen.timestamp, speaker |-> gen.speaker,
                          text |-> gen.text]>> \o ChatScan(lines, k + 1)
             ELSE ChatScan(lines, k + 1)

\* _detect_chat_format with >= in the place of > at line 396
DetectChatFormatAtHalf(text) ==
    LET lines == SplitOn(Strip(text), <<"\n">>)
        messages == ChatScan(lines, 1)
        match_count == Len(messages)
    IN  IF Len(lines) < 3 THEN [is_none |-> TRUE, messages |-> <<>>]
        ELSE IF 2 * match_count >= Len(lines)
             THEN [is_none |-> FALSE, messages |-> messages]
             ELSE [is_none |-> TRUE, messages |-> <<>>]

\* _detect_chat_format(text): the messages, or None; every match appends one
\* message, so match_count is the number of messages
DetectChatFormat(text) ==
    LET lines == SplitOn(Strip(text), <<"\n">>)
        messages == ChatScan(lines, 1)
        match_count == Len(messages)
    IN  IF Len(lines) < 3 THEN [is_none |-> TRUE, messages |-> <<>>]
        ELSE IF 2 * match_count > Len(lines)
             THEN [is_none |-> FALSE, messages |-> messages]
             ELSE [is_none |-> TRUE, messages |-> <<>>]

-----------------------------------------------------------------------------
(* Properties of chunk_text *)

\* C6: no chunk returned by chunk_text has an empty or whitespace-only text,
\* whatever the text, the chunk size and the overlap.
C6_NoBlankChunk ==
    ct.pc = "done" => \A i \in 1..Len(ct.result) : Strip(ct.result[i].text) /= <<>>

\* a returned call that flushed its accumulator at the end, after splitting an
\* oversized paragraph of a text that starts with whitespace
C6_Witness ==
    /\ ct.pc = "done"
    /\ Len(ct.result) >= 3
    /\ ct.split_chunks /= <<>>
    /\ ct.current /= <<>>
    /\ IsSpace(ct.text[1])

AllParagraphsFit ==
    \A p \in 1..Len(ct.paragraphs) : Len(SplitWords(ct.paragraphs[p])) <= ct.chunk_size

\* chunk j is paragraphs k+1..e joined by blank lines, after nothing or after
\* the last c <= overlap words of chunk j-1 and a blank line
ChunkIsParagraphs(j, k, e) ==
    LET body == Join(<<"\n", "\n">>, SubSeq(ct.paragraphs, k + 1, e))
        text == ct.result[j].text
    IN  \/ text = body
        \/ /\ j > 1
           /\ \E c \in 1..ct.overlap :
                /\ c <= Len(SplitWords(ct.result[j - 1].text))
                /\ text = Join(<<" ">>, PyTail(SplitWords(ct.result[j - 1].text), c))
                            \o <<"\n", "\n">> \o body

\* chunks j.. hold paragraphs k+1.. whole and in order, each in one chunk
RECURSIVE ChunksCoverParagraphs(_, _)
ChunksCoverParagraphs(j, k) ==
    IF j > Len(ct.result)
    THEN k = Len(ct.paragraphs)
    ELSE \E e \in (k + 1)..Len(ct.paragraphs) :
            ChunkIsParagraphs(j, k, e) /\ ChunksCoverParagraphs(j + 1, e)

\* C7: when every paragraph has at most chunk_size words, no chunk boundary
\* falls inside a paragraph: each chunk is a run of whole paragraphs, after a
\* carried-over prefix of at most overlap words, and each paragraph is whole
\* in one chunk.
C7_ParagraphsWhole ==
    (ct.pc = "done" /\ AllParagraphsFit) => ChunksCoverParagraphs(1, 0)

\* two chunks, the first of two paragraphs, the second starting with a
\* carried-over word
C7_Witness ==
    /\ ct.pc = "done"
    /\ AllParagraphsFit
    /\ ct.overlap > 0
    /\ Len(ct.result) = 2
    /\ Len(ct.paragraphs) = 3
    /\ Len(SplitWords(ct.result[2].text)) = 2

\* C8: with 0 < overlap < chunk_size, the windows of an oversized paragraph
\* start at 0, size-overlap, 2(size-overlap), ... and every window after the
\* first begins with exactly the last overlap words of the window before it.
C8_WindowsRepeatOverlap ==
    (ct.pc = "split" /\ 0 < ct.overlap /\ ct.overlap < ct.chunk_size) =>
        \A k \in 1..Len(ct.split_chunks) :
            LET w == SplitWords(ct.split_chunks[k].text)
                first == (k - 1) * (ct.chunk_size - ct.overlap)
            IN  /\ w = PySlice(ct.words, first, first + ct.chunk_size)
                /\ k > 1 =>
                    LET prev == SplitWords(ct.split_chunks[k - 1].text)
                    IN  /\ Len(w) >= ct.overlap
                        /\ SubSeq(w, 1, ct.overlap) = PyTail(prev, ct.overlap)

-----------------------------------------------------------------------------
(* memory/validate.py *)

\* _SIGNATURES: (offset, magic_bytes, compatible extensions, name), first match wins
MagicJPEG == <<255, 216, 255>>
MagicPNG == <<137, 80, 78, 71, 13, 10, 26, 10>>
MagicGIF87a == <<71, 73, 70, 56, 55, 97>>
MagicGIF89a == <<71, 73, 70, 56, 57, 97>>
MagicRIFF == <<82, 73, 70, 70>>
MagicPDF == <<37, 80, 68, 70>>
MagicOLE2 == <<208, 207, 17, 224, 161, 177, 26, 225>>
MagicZIP == <<80, 75, 3, 4>>
MagicMKV == <<26, 69, 223, 163>>

Signature(offset, magic, exts, name) ==
    [offset |-> offset, magic |-> magic, exts |-> exts, name |-> name]

Signatures == <<
    Signature(0, MagicJPEG, {".jpg", ".jpeg"}, "JPEG image"),
    Signature(0, MagicPNG, {".png"}, "PNG image"),
    Signature(0, MagicGIF87a, {".gif"}, "GIF image"),
    Signature(0, MagicGIF89a, {".gif"}, "GIF image"),
    Signature(0, MagicRIFF, {".webp"}, "WebP image"),
    Signature(0, MagicPDF, {".pdf"}, "PDF document"),
    Signature(0, MagicOLE2, {".doc", ".xls", ".ppt"}, "OLE2 document (.doc/.xls/.ppt)"),
    Signature(0, MagicZIP, {".docx", ".xlsx", ".pptx", ".odt", ".epub", ".zip"},
              "ZIP/Open-XML document (.docx/.xlsx/...)"),
    Signature(0, MagicMKV, {".mkv", ".webm"}, "MKV/WebM video"),
    Signature(0, MagicRIFF, {".avi", ".wav"}, "RIFF container (AVI/WAV)") >>

\* _RIFF_SUBTYPES: bytes 8-11 of a RIFF file
SubWEBP == <<87, 69, 66, 80>>
SubAVI == <<65, 86, 73, 32>>
SubWAVE == <<87, 65, 86, 69>>

RiffSubtypes ==
    [k \in {SubWEBP, SubAVI, SubWAVE} |->
        IF k = SubWEBP THEN [exts |-> {".webp"}, name |-> "WebP image"]
        ELSE IF k = SubAVI THEN [exts |-> {".avi"}, name |-> "AVI video"]
        ELSE [exts |-> {".wav"}, name |-> "WAV audio"]]

TextExtensions == {".txt", ".md", ".csv", ".json"}

SkipValidation == {".mp4", ".mov"}

\* path.read_bytes()[:16]
HeaderLen == 16

\* no signature matched: detected_name is None
NoType == [name |-> "None", exts |-> {}]

\* header[offset: offset + len(magic)] == magic
MagicMatches(header, sig) ==
    PySlice(header, sig.offset, sig.offset + Len(sig.magic)) = sig.magic

\* lines 77-84: the type a matching signature gives, after the RIFF sub-type check
Resolve(header, sig) ==
    IF sig.magic = MagicRIFF /\ Len(header) >= 12
          /\ PySlice(header, 8, 12) \in DOMAIN RiffSubtypes
    THEN RiffSubtypes[PySlice(header, 8, 12)]
    ELSE [name |-> sig.name, exts |-> sig.exts]

\* lines 74-86 without the break: the last matching signature wins
RECURSIVE DetectLastFrom(_, _, _)
DetectLastFrom(header, k, found) ==
    IF k > Len(Signatures) THEN found
    ELSE IF MagicMatches(header, Signatures[k])
         THEN DetectLastFrom(header, k + 1, Resolve(header, Signatures[k]))
         ELSE DetectLastFrom(header, k + 1, found)

DetectLastMatch(header) == DetectLastFrom(header, 1, NoType)

\* lines 74-86: walk the table in order and stop at the first match
RECURSIVE DetectFrom(_, _)
DetectFrom(header, k) ==
    IF k > Len(Signatures) THEN NoType
    ELSE IF MagicMatches(header, Signatures[k])
         THEN Resolve(header, Signatures[k])
         ELSE DetectFrom(header, k + 1)

Detect(header) == DetectFrom(header, 1)

IsCont(b) == 128 <= b /\ b <= 191

\* bytes.decode("utf-8", errors="strict") succeeds: well-formed UTF-8 with no
\* overlong form, no surrogate, nothing above U+10FFFF and no truncated sequence
RECURSIVE Utf8ValidFrom(_, _)
Utf8ValidFrom(b, i) ==
    IF i > Len(b) THEN TRUE
    ELSE LET c == b[i]
             has(n) == i + n <= Len(b)
         IN  IF c <= 127 THEN Utf8ValidFrom(b, i + 1)
             ELSE IF 194 <= c /\ c <= 223
                  THEN has(1) /\ IsCont(b[i + 1]) /\ Utf8ValidFrom(b, i + 2)
             ELSE IF 224 <= c /\ c <= 239
                  THEN /\ has(2)
                       /\ IsCont(b[i + 1]) /\ IsCont(b[i + 2])
                       /\ (c = 224 => b[i + 1] >= 160)
                       /\ (c = 237 => b[i + 1] <= 159)
                       /\ Utf8ValidFrom(b, i + 3)
             ELSE IF 240 <= c /\ c <= 244
                  THEN /\ has(3)
                       /\ IsCont(b[i + 1]) /\ IsCont(b[i + 2]) /\ IsCont(b[i + 3])
                       /\ (c = 240 => b[i + 1] >= 144)
                       /\ (c = 244 => b[i + 1] <= 143)
                       /\ Utf8ValidFrom(b, i + 4)
             ELSE FALSE

Utf8Valid(b) == Utf8ValidFrom(b, 1)

\* str.lower() on the suffixes of the model
Lower(suffix) ==
    CASE suffix = ".TXT" -> ".txt"
      [] suffix = ".PNG" -> ".png"
      [] OTHER -> suffix

\* validate_file_type without the UTF-8 check of lines 95-102
ValidateFileTypeNoDecode(suffix, data) ==
    LET header == PySlice(data, 0, HeaderLen)
        detected == Detect(header)
    IN  IF Lower(suffix) \in SkipValidation THEN "ok"
        ELSE IF Lower(suffix) \in TextExtensions
             THEN IF detected /= NoType THEN "FileTypeMismatchError" ELSE "ok"
        ELSE IF detected /= NoType /\ Lower(suffix) \notin detected.exts
             THEN "FileTypeMismatchError"
        ELSE "ok"

\* validate_file_type(path): "ok" when it returns, else the exception it raises
ValidateFileType(suffix, data) ==
    LET header == PySlice(data, 0, HeaderLen)
        detected == Detect(header)
    IN  IF Lower(suffix) \in SkipValidation THEN "ok"
        ELSE IF Lower(suffix) \in TextExtensions
             THEN IF detected /= NoType THEN "FileTypeMismatchError"
                  ELSE IF ~Utf8Valid(header) THEN "FileTypeMismatchError"
                  ELSE "ok"
        ELSE IF detected /= NoType /\ Lower(suffix) \notin detected.exts
             THEN "FileTypeMismatchError"
        ELSE "ok"

\* The files of the model: some first bytes, then ASCII letters, then some last bytes
Truncations(magic) == { SubSeq(magic, 1, Len(magic) - 1) }

FileHeads ==
    {MagicJPEG, MagicPNG, MagicGIF87a, MagicGIF89a, MagicRIFF, MagicPDF, MagicOLE2,
     MagicZIP, MagicMKV}
    \cup Truncations(MagicJPEG) \cup Truncations(MagicPNG) \cup Truncations(MagicRIFF)
    \cup { MagicRIFF \o <<36, 0, 0, 0>> \o sub : sub \in DOMAIN RiffSubtypes }
    \cup { MagicRIFF \o <<36, 0, 0, 0>>,
           MagicRIFF \o <<36, 0, 0, 0, 76, 73, 83, 84>>,
           <<>>, <<104, 105>>, <<255>>, <<195, 40>> }

FileTails ==
    { <<>>, <<195, 169>>, <<226, 130, 172>>, <<240, 159, 152, 128>>,
      <<128>>, <<237, 160, 128>>, <<192, 128>> }

Pad(n) == [i \in 1..n |-> 97]

FileContents ==
    { head \o Pad(n) \o tail : head \in FileHeads, n \in 0..MaxPad, tail \in FileTails }

Suffixes ==
    {".txt", ".md", ".csv", ".json", ".TXT", ".png", ".PNG", ".jpg", ".jpeg", ".gif",
     ".webp", ".pdf", ".doc", ".docx", ".mkv", ".avi", ".wav", ".mp4", ".mov", ".xyz"}

InitValidate ==
    /\ \E suffix \in Suffixes, data \in FileContents :
          vf = [pc |-> "call", suffix |-> suffix, data |-> data, outcome |-> "none"]
    /\ ct = NoCall /\ cc = NoCall /\ ing = NoCall /\ dir = NoCall
    /\ tmpfs = NoTempDirs
    /\ ef = NoCall /\ cli = NoCall /\ sess = NoCall
    /\ settings = DefaultSettings

\* one call of validate_file_type
ValidateFileTypeCall ==
    /\ vf.pc = "call"
    /\ vf' = [vf EXCEPT !.pc = "done", !.outcome = ValidateFileType(vf.suffix, vf.data)]
    /\ UNCHANGED <<ct, cc, ing, dir, tmpfs, settings, ef, cli, sess>>

NextValidate == ValidateFileTypeCall

SpecValidate == InitValidate /\ [][NextValidate]_vars

-----------------------------------------------------------------------------
(* Properties of validate_file_type *)

Header == PySlice(vf.data, 0, HeaderLen)

SomeSignatureMatches == \E k \in 1..Len(Signatures) : MagicMatches(Header, Signatures[k])

FirstMatch ==
    CHOOSE k \in 1..Len(Signatures) :
        /\ MagicMatches(Header, Signatures[k])
        /\ \A j \in 1..(k - 1) : ~MagicMatches(Header, Signatures[j])

\* the compatible extensions of the first matching signature, a RIFF match
\* with 12 bytes and a known sub-type taking those of the sub-type
FirstMatchExts ==
    LET sig == Signatures[FirstMatch]
        sub == PySlice(Header, 8, 12)
    IN  IF sig.magic = MagicRIFF /\ Len(Header) >= 12 /\ sub = SubWEBP THEN {".webp"}
        ELSE IF sig.magic = MagicRIFF /\ Len(Header) >= 12 /\ sub = SubAVI THEN {".avi"}
        ELSE IF sig.magic = MagicRIFF /\ Len(Header) >= 12 /\ sub = SubWAVE THEN {".wav"}
        ELSE sig.exts

\* C10: a file with a binary-like extension outside the skip set fails if and
\* only if the first matching signature (after RIFF sub-type resolution) has a
\* compatible-extension set without the declared extension; with no matching
\* signature it passes; photo.png passes with PNG bytes and fails with JPEG bytes.
C10_BinaryExtension ==
    (/\ vf.pc = "done"
     /\ Lower(vf.suffix) \notin TextExtensions
     /\ Lower(vf.suffix) \notin SkipValidation) =>
        /\ (vf.outcome = "FileTypeMismatchError")
              <=> (SomeSignatureMatches /\ Lower(vf.suffix) \notin FirstMatchExts)
        /\ ~SomeSignatureMatches => vf.outcome = "ok"
        /\ (vf.suffix = ".png" /\ PySlice(vf.data, 0, 8) = MagicPNG) => vf.outcome = "ok"
        /\ (vf.suffix = ".png" /\ PySlice(vf.data, 0, 3) = MagicJPEG)
              => vf.outcome = "FileTypeMismatchError"

\* an .avi file holding a RIFF container whose sub-type is not in the table
C10_Witness ==
    /\ vf.pc = "done"
    /\ vf.suffix = ".avi"
    /\ PySlice(vf.data, 0, 4) = MagicRIFF
    /\ Len(vf.data) >= 12
    /\ PySlice(vf.data, 8, 12) \notin DOMAIN RiffSubtypes
    /\ vf.outcome = "FileTypeMismatchError"

-----------------------------------------------------------------------------
(* memory/ingest.py: the files of the model *)

ImageExtensions == {".jpg", ".jpeg", ".png", ".gif", ".webp"}
VideoExtensions == {".mp4", ".mov", ".avi", ".mkv"}
IngestTextExtensions == {".txt", ".md", ".json", ".pdf", ".csv", ".docx", ".doc"}

\* A directory entry: its name, its suffix, whether it is a regular file, its
\* first bytes, and what the library call that reads it (read_text,
\* json.loads and json.dumps, csv.DictReader, pymupdf, python-docx) gives.
\* In a text, ":" "[" "]" "/" "," "-" and each digit are characters of their
\* own; any other piece is a run of characters that are none of these.
Entry(name, suffix, data, content) ==
    [name |-> name, suffix |-> suffix, is_file |-> TRUE, data |-> data, content |-> content]

WaLine(minute, speaker, text) ==
    <<"2", "/", "1", "/", "2", "4", ",", " ", "1", "0", ":", "0", minute, " ", "-", " ">>
        \o speaker \o <<":", " ">> \o text

JsonItem(d) == [is_dict |-> TRUE, d |-> d]

\* The entries, in the order sorted() gives their paths
Catalog == <<
    Entry("a_notes.txt", ".txt", <<111, 110, 101>>,
          <<"one", " ", "two", "\n", "\n", "three", " ", "four", " ", "five">>),
    Entry("b_chat.txt", ".txt", <<50, 47, 49>>,
          WaLine("0", <<"Alice">>, <<"hi">>) \o <<"\n">>
            \o WaLine("1", <<"Bob">>, <<"hey">>) \o <<"\n">>
            \o <<"[", "9", "]", " ", "Alice", ":", " ", "how", " ", "are", " ", "you">>),
    Entry("c_bad.txt", ".txt", MagicPNG \o <<0, 0>>, <<>>),
    Entry("d_msgs.json", ".json", <<91, 123>>,
          [loads |-> "ok", is_list |-> TRUE,
           items |-> << JsonItem([sender |-> <<"Alice">>, text |-> <<"hi">>]),
                        JsonItem([from |-> <<"Bob">>, message |-> <<"hey", " ", "you">>,
                                  date |-> <<"9">>]) >>,
           dumps |-> <<>>]),
    Entry("dm_mixed.json", ".json", <<91, 123>>,
          [loads |-> "ok", is_list |-> TRUE,
           items |-> << JsonItem([text |-> <<"hi">>]), [is_dict |-> FALSE, d |-> EmptyDict] >>,
           dumps |-> <<>>]),
    Entry("dn_some.json", ".json", <<91, 123>>,
          [loads |-> "ok", is_list |-> TRUE,
           items |-> << JsonItem([sender |-> <<"Alice">>, text |-> <<"hi">>]),
                        JsonItem([sender |-> <<"Bob">>, id |-> <<"7">>]) >>,
           dumps |-> <<"[", "\n", " ", " ", "{", "\n", " ", " ", " ", " ", "\"sender\"", ":",
                       " ", "\"Alice\"", ",", "\n", " ", " ", "}", "\n", "]">>]),
    Entry("do_later.json", ".json", <<91, 123>>,
          [loads |-> "ok", is_list |-> TRUE,
           items |-> << JsonItem([id |-> <<"7">>]),
                        JsonItem([sender |-> <<"Bob">>, text |-> <<"hey">>]) >>,
           dumps |-> <<"[", "\n", " ", " ", "{", "\n", " ", " ", " ", " ", "\"id\"", ":",
                       " ", "\"7\"", "\n", " ", " ", "}", "\n", "]">>]),
    Entry("e_obj.json", ".json", <<123, 34>>,
          [loads |-> "ok", is_list |-> FALSE, items |-> <<>>,
           dumps |-> <<"{", "\n", " ", " ", "\"k\"", ":", " ", "\"v\"", "\n", "}">>]),
    Entry("f_torn.json", ".json", <<91, 123>>,
          [loads |-> "JSONDecodeError", is_list |-> FALSE, items |-> <<>>, dumps |-> <<>>]),
    Entry("g_chat.csv", ".csv", <<102, 114>>,
          [header |-> <<"from", "text", "date">>,
           rows |-> << [from |-> <<"Alice">>, text |-> <<"hi">>, date |-> <<"9">>],
                       [from |-> <<"Bob">>, text |-> <<"hey", " ", "you">>, date |-> <<>>] >>]),
    Entry("gm_two.csv", ".csv", <<102, 114>>,
          [header |-> <<"from", "user", "text">>,
           rows |-> << [from |-> <<"Alice">>, user |-> <<"al">>, text |-> <<"hi">>],
                       [from |-> <<"Bob">>, user |-> <<"bo">>, text |-> <<"hey">>] >>]),
    Entry("h_plain.csv", ".csv", <<107, 44>>,
          [header |-> <<"k", "v">>,
           rows |-> << [k |-> <<"x">>, v |-> <<"1">>], [k |-> <<"y">>, v |-> <<"2">>] >>]),
    Entry("i_empty.csv", ".csv", <<107, 44>>, [header |-> <<"k", "v">>, rows |-> <<>>]),
    Entry("j_doc.pdf", ".pdf", MagicPDF,
          [error |-> "none", parts |-> << <<"page", " ", "one">>, <<"page", " ", "two">> >>]),
    Entry("k_doc.docx", ".docx", MagicZIP,
          [error |-> "none", parts |-> << <<"first", " ", "para">>, <<" ">>, <<"second">> >>]),
    Entry("l_old.doc", ".doc", MagicOLE2, <<"old", " ", "words">>),
    Entry("m_pic.png", ".png", MagicPNG, <<>>),
    Entry("n_clip.mp4", ".mp4", <<0, 0, 0, 24>>, <<>>),
    Entry("o_fake.avi", ".avi", MagicJPEG, <<>>),
    [Entry("p_sub", "", <<>>, <<>>) EXCEPT !.is_file = FALSE],
    Entry("q_data.xyz", ".xyz", <<1, 2>>, <<>>),
    Entry("q_pic.xyz", ".xyz", MagicPNG \o <<0, 0>>, <<>>),
    Entry("r_torn.pdf", ".pdf", MagicPDF, [error |-> "FileDataError", parts |-> <<>>]) >>

\* what the vision service and the transcription service may answer
Descriptions == { <<"blue", " ", "sky">> }
Transcripts == { <<>>, <<"hello", " ", "world">> }

TagChoices == { <<>>, <<"bob", "amy">> }
DescriptionChoices == { <<>>, <<"the", " ", "trip">> }

SettingsChoices ==
    [chunk_size : 0..MaxSize, chunk_overlap : 0..MaxOverlap, video_max_frames : 1..MaxFrames]

\* sep.join(parts) for Python strs kept as one value (metadata values)
RECURSIVE JoinStr(_, _)
JoinStr(sep, parts) ==
    IF parts = <<>> THEN ""
    ELSE IF Len(parts) = 1 THEN parts[1]
    ELSE parts[1] \o sep \o JoinStr(sep, Tail(parts))

\* ', '.join(tags) as a text
TagsText(tags) == Join(<<",", " ">>, [i \in 1..Len(tags) |-> <<tags[i]>>])

-----------------------------------------------------------------------------
(* memory/ingest.py: ingest_file and its handlers *)

\* chat_messages before _detect_chat_format has been called
NotDetected == [is_none |-> TRUE, messages |-> <<>>]

\* an ingest_file call with its arguments, before its first statement
IngestFileCall(file, tags, description, use_vision) ==
    [pc |-> "call", file |-> file, tags |-> tags, description |-> description,
     use_vision |-> use_vision, meta |-> EmptyDict, outcome |-> "none", result |-> <<>>,
     frames |-> <<>>, fi |-> 1, temp_dirs |-> <<>>, frame_descriptions |-> <<>>,
     transcript |-> <<>>, text |-> <<>>, chat_messages |-> NotDetected,
     audio_path |-> [assigned |-> FALSE], created |-> {}]

Raise(frame, exception) == [frame EXCEPT !.pc = "raised", !.outcome = exception]

Return(frame, chunks) == [frame EXCEPT !.pc = "returned", !.outcome = "ok", !.result = chunks]

\* the branch of lines 39-56 taken for a suffix
Handler(suffix) ==
    IF suffix \in ImageExtensions THEN "image"
    ELSE IF suffix \in VideoExtensions THEN "video"
    ELSE IF suffix \in {".txt", ".md"} THEN "text"
    ELSE IF suffix = ".json" THEN "json"
    ELSE IF suffix = ".pdf" THEN "pdf"
    ELSE IF suffix = ".csv" THEN "csv"
    ELSE IF suffix = ".docx" THEN "docx"
    ELSE IF suffix = ".doc" THEN "doc"
    ELSE "unsupported"

\* lines 33-56: validation, the metadata, and the dispatch on the suffix
IngestDispatch ==
    /\ ing.pc = "call"
    /\ LET verdict == ValidateFileType(ing.file.suffix, ing.file.data)
           suffix == Lower(ing.file.suffix)
           meta == [source |-> ing.file.name, source_path |-> "data/" \o ing.file.name]
       IN  IF verdict /= "ok" THEN ing' = Raise(ing, verdict)
           ELSE IF Handler(suffix) = "unsupported" THEN ing' = Raise(ing, "ValueError")
           ELSE ing' = [ing EXCEPT !.pc = Handler(suffix), !.meta = meta]
    /\ UNCHANGED <<ct, tmpfs>>

\* a handler calls chunk_text with the configured size and overlap
CallChunkText(text, meta) ==
    ct' = ChunkTextCall(text, settings.chunk_size, settings.chunk_overlap, meta)

\* _build_media_text(media_type, filename, tags, description, analysis)
BuildMediaText(media_type, filename, tags, description, analysis) ==
    LET header == <<"[" \o media_type, " ", "memory:", " ", filename \o "]">>
        p2 == IF tags /= <<>> THEN << <<"Tags:", " ">> \o TagsText(tags) >> ELSE <<>>
        p3 == IF description /= <<>>
              THEN << <<"Description:", " ">> \o description >> ELSE <<>>
        p4 == IF analysis /= <<>> THEN << <<"\n">> \o analysis >> ELSE <<>>
    IN  Join(<<"\n">>, <<header>> \o p2 \o p3 \o p4)

\* meta["format"] = ...; if tags: meta["tags"] = ",".join(tags)
MediaMeta(meta, format, tags) ==
    LET m == DictSet(meta, "format", format)
    IN  IF tags /= <<>> THEN DictSet(m, "tags", JoinStr(",", tags)) ELSE m

\* lines 118-140: _ingest_image; the analyzer factory or the analyzer may raise
IngestImage ==
    /\ ing.pc = "image"
    /\ LET meta == MediaMeta(ing.meta, "photo", ing.tags)
           chunk(analysis) ==
               Chunk(BuildMediaText("Photo", ing.file.name, ing.tags, ing.description,
                                    analysis),
                     DictSet(meta, "chunk_index", "0"))
       IN  IF ing.use_vision
           THEN \/ ing' = Raise(ing, "ValueError")
                \/ ing' = Raise(ing, "APIError")
                \/ \E analysis \in Descriptions \cup {<<>>} :
                      ing' = Return([ing EXCEPT !.meta = meta], <<chunk(analysis)>>)
           ELSE ing' = Return([ing EXCEPT !.meta = meta], <<chunk(<<>>)>>)
    /\ UNCHANGED <<ct, tmpfs>>

\* lines 214-225: _ingest_text
IngestText ==
    /\ ing.pc = "text"
    /\ LET text == ing.file.content
           chat_messages == DetectChatFormat(text)
       IN  IF ~chat_messages.is_none /\ chat_messages.messages /= <<>>
           THEN LET meta == DictSet(ing.meta, "format", "chat")
                IN  /\ ing' = Return([ing EXCEPT !.meta = meta,
                                                 !.chat_messages = chat_messages],
                                     ChunkChatMessages(chat_messages.messages,
                                                       settings.chunk_size, meta))
                    /\ UNCHANGED ct
           ELSE /\ ing' = [ing EXCEPT !.pc = "chunk_text", !.chat_messages = chat_messages]
                /\ CallChunkText(text, ing.meta)
    /\ UNCHANGED tmpfs

\* item.get(k1, item.get(k2, item.get(k3, default)))
Get3(d, k1, k2, k3, default) == DictGet(d, k1, DictGet(d, k2, DictGet(d, k3, default)))

\* lines 236-241: the message of one record of a JSON array
JsonMessage(item) ==
    [speaker |-> Get3(item, "sender", "from", "speaker", <<"Unknown">>),
     text |-> Get3(item, "text", "message", "content", <<>>),
     timestamp |-> DictGet(item, "timestamp", DictGet(item, "date", <<>>))]

\* lines 228-247: _ingest_json
IngestJson ==
    /\ ing.pc = "json"
    /\ LET data == ing.file.content
           items == data.items
       IN  IF data.loads /= "ok" THEN ing' = Raise(ing, data.loads) /\ UNCHANGED ct
           ELSE IF /\ data.is_list /\ items /= <<>> /\ items[1].is_dict
                   /\ \E k \in {"text", "message", "content"} : k \in DOMAIN items[1].d
                THEN IF \E i \in 1..Len(items) : ~items[i].is_dict
                     THEN ing' = Raise(ing, "AttributeError") /\ UNCHANGED ct
                     ELSE LET meta == DictSet(ing.meta, "format", "chat_json")
                              messages == [i \in 1..Len(items) |-> JsonMessage(items[i].d)]
                          IN  /\ ing' = Return([ing EXCEPT !.meta = meta],
                                               ChunkChatMessages(messages,
                                                                 settings.chunk_size, meta))
                              /\ UNCHANGED ct
                ELSE /\ ing' = [ing EXCEPT !.pc = "chunk_text"]
                     /\ CallChunkText(data.dumps, ing.meta)
    /\ UNCHANGED tmpfs

\* lines 250-262 and 304-312: _ingest_pdf and _ingest_docx; the library may raise
IngestDocument ==
    /\ ing.pc \in {"pdf", "docx"}
    /\ LET doc == ing.file.content
           kept == IF ing.pc = "docx"
                   THEN SelectSeq(doc.parts, LAMBDA t : Strip(t) /= <<>>)
                   ELSE doc.parts
           text == Join(<<"\n", "\n">>, kept)
           meta == DictSet(ing.meta, "format", ing.pc)
       IN  \/ ing' = Raise(ing, "ImportError") /\ UNCHANGED ct
           \/ /\ doc.error /= "none"
              /\ ing' = Raise(ing, doc.error) /\ UNCHANGED ct
           \/ /\ doc.error = "none"
              /\ ing' = [ing EXCEPT !.pc = "chunk_text", !.meta = meta]
              /\ CallChunkText(text, meta)
    /\ UNCHANGED tmpfs

CsvChatFields == {"sender", "from", "author", "speaker", "user"}
CsvMsgFields == {"text", "message", "content", "body"}
CsvTimeFields == {"timestamp", "date", "time", "datetime"}

\* " | ".join(f"{k}: {v}" for k, v in row.items())
CsvLine(header, row) ==
    Join(<<" ", "|", " ">>, [i \in 1..Len(header) |-> <<header[i], ":", " ">> \o row[header[i]]])

\* lines 281-284: the keys next(k for k in fields if k in ...) may give.
\* fields is a set of str: its iteration order follows the hashes of the
\* names, which change from one process run to another (hash randomization),
\* so the first match is any of the matching columns.
CsvKeyChoices(fields) ==
    [sender_key : fields \cap CsvChatFields,
     msg_key : fields \cap CsvMsgFields,
     time_key : IF fields \cap CsvTimeFields = {} THEN {"None"}
                ELSE fields \cap CsvTimeFields]

\* lines 286-292: the messages of the rows under the keys chosen
CsvMessages(rows, keys) ==
    [i \in 1..Len(rows) |->
        [speaker |-> rows[i][keys.sender_key],
         text |-> rows[i][keys.msg_key],
         timestamp |-> IF keys.time_key /= "None"
                       THEN DictGet(rows[i], keys.time_key, <<>>)
                       ELSE <<>>]]

\* lines 265-301: _ingest_csv
IngestCsv ==
    /\ ing.pc = "csv"
    /\ LET rows == ing.file.content.rows
           header == ing.file.content.header
           fields == { header[i] : i \in 1..Len(header) }
       IN  IF rows = <<>> THEN ing' = Return(ing, <<>>) /\ UNCHANGED ct
           ELSE IF fields \cap CsvChatFields /= {} /\ fields \cap CsvMsgFields /= {}
                THEN \E keys \in CsvKeyChoices(fields) :
                        LET messages == CsvMessages(rows, keys)
                            meta == DictSet(ing.meta, "format", "chat_csv")
                        IN  /\ ing' = Return([ing EXCEPT !.meta = meta],
                                             ChunkChatMessages(messages,
                                                               settings.chunk_size, meta))
                            /\ UNCHANGED ct
                ELSE /\ ing' = [ing EXCEPT !.pc = "chunk_text"]
                     /\ CallChunkText(Join(<<"\n">>,
                                           [i \in 1..Len(rows) |-> CsvLine(header, rows[i])]),
                                      ing.meta)
    /\ UNCHANGED tmpfs

\* lines 328-354: _convert_doc_to_text, for what antiword does (not installed,
\* fails, prints blanks, prints the text) and what pypandoc does (missing or
\* raising, or converting to a possibly empty text)
ConvertDocToText(antiword, pypandoc, words) ==
    IF antiword = "text" /\ Strip(words) /= <<>> THEN [raised |-> FALSE, text |-> words]
    ELSE IF pypandoc = "text" THEN [raised |-> FALSE, text |-> words]
    ELSE IF pypandoc = "empty" THEN [raised |-> FALSE, text |-> <<>>]
    ELSE [raised |-> TRUE, text |-> <<>>]

\* lines 315-325: _ingest_doc
IngestDoc ==
    /\ ing.pc = "doc"
    /\ \E antiword \in {"absent", "fails", "blank", "text"},
          pypandoc \in {"raises", "empty", "text"} :
          LET converted == ConvertDocToText(antiword, pypandoc, ing.file.content)
              meta == DictSet(ing.meta, "format", "doc")
          IN  IF converted.raised
              THEN ing' = Raise(ing, "RuntimeError") /\ UNCHANGED ct
              ELSE /\ ing' = [ing EXCEPT !.pc = "chunk_text", !.meta = meta]
                   /\ CallChunkText(converted.text, meta)
    /\ UNCHANGED tmpfs

\* the handler returns what chunk_text returned
IngestChunkTextReturn ==
    /\ ing.pc = "chunk_text"
    /\ ct.pc = "done"
    /\ ing' = Return(ing, ct.result)
    /\ UNCHANGED <<ct, tmpfs>>
-----------------------------------------------------------------------------
(* _ingest_video, memory/ingest.py, with media/video.py *)

\* tempfile.mkdtemp(prefix=...): a directory no earlier call made
NewTempDir(prefix) == [prefix |-> prefix, n |-> tmpfs.made + 1]

MakeTempDir(prefix) ==
    [made |-> tmpfs.made + 1, live |-> tmpfs.live \cup {NewTempDir(prefix)}]

\* A Python float is an IEEE 754 double: 53 significant bits, results rounded
\* to the nearest value, to the even one of two equally near. A positive
\* double is written here [int, frac]: its integer part and the bits of its
\* fraction, as many as the 53 leave after the bits of the integer part.
DoubleBits == 53

\* the e with 2^e <= n < 2^(e+1)
Log2Floor(n) == CHOOSE e \in 0..20 : 2^e <= n /\ n < 2^(e + 1)

\* the double one unit in the last place above [int, frac]
NextDouble(int, frac) ==
    LET zeros == { k \in 1..Len(frac) : frac[k] = 0 }
    IN  IF zeros = {}
        THEN [int |-> int + 1, frac |-> [k \in 1..Len(frac) |-> 0]]
        ELSE LET k0 == CHOOSE k \in zeros : \A j \in zeros : j <= k
             IN  [int |-> int,
                  frac |-> [k \in 1..Len(frac) |->
                              IF k < k0 THEN frac[k] ELSE IF k = k0 THEN 1 ELSE 0]]

\* total_frames / max_frames for total_frames > max_frames >= 1: the bits of
\* the quotient by long division, rounded on the first bit left out
TrueDiv(total_frames, max_frames) ==
    LET int == total_frames \div max_frames
        n == DoubleBits - 1 - Log2Floor(int)
        Rem[k \in 0..n] == IF k = 0 THEN total_frames % max_frames
                           ELSE (2 * Rem[k - 1]) % max_frames
        frac == [k \in 1..n |-> (2 * Rem[k - 1]) \div max_frames]
        half == (2 * Rem[n]) \div max_frames
        below == (2 * Rem[n]) % max_frames /= 0
    IN  IF half = 1 /\ (below \/ frac[n] = 1)
        THEN NextDouble(int, frac)
        ELSE [int |-> int, frac |-> frac]

\* int(step * i): the product of the double step by the integer i, rounded to
\* a double, then truncated. The exact product has the fraction bits p; the
\* rounding reaches the next integer only when every bit kept is 1.
IntOfProduct(step, i) ==
    IF i = 0 THEN 0
    ELSE LET n == Len(step.frac)
             Carry[k \in 1..(n + 1)] ==
                 IF k = n + 1 THEN 0 ELSE (step.frac[k] * i + Carry[k + 1]) \div 2
             p == [k \in 1..n |-> (step.frac[k] * i + Carry[k + 1]) % 2]
             int == i * step.int + Carry[1]
             kept == DoubleBits - 1 - Log2Floor(int)
         IN  IF kept >= n THEN int
             ELSE IF /\ p[kept + 1] = 1
                     /\ (p[kept] = 1 \/ \E k \in (kept + 2)..n : p[k] = 1)
                     /\ \A k \in 1..kept : p[k] = 1
                  THEN int + 1
                  ELSE int

\* the indices taken for i in range(1, max_frames + 1)
FrameIndicesFromOne(total_frames, max_frames) ==
    IF total_frames <= max_frames
    THEN [i \in 1..total_frames |-> i - 1]
    ELSE LET step == TrueDiv(total_frames, max_frames)
         IN  [i \in 1..max_frames |-> IntOfProduct(step, i)]

\* video.py lines 26-30: the indices of the frames to read
\*   step = total_frames / max_frames
\*   indices = [int(step * i) for i in range(max_frames)]
FrameIndices(total_frames, max_frames) ==
    IF total_frames <= max_frames
    THEN [i \in 1..total_frames |-> i - 1]
    ELSE LET step == TrueDiv(total_frames, max_frames)
         IN  [i \in 1..max_frames |-> IntOfProduct(step, i - 1)]

\* lines 151-157
VideoStart ==
    /\ ing.pc = "video"
    /\ ing' = [ing EXCEPT !.meta = MediaMeta(ing.meta, "video", ing.tags),
                          !.pc = IF ing.use_vision THEN "extract_frames" ELSE "extract_audio"]
    /\ UNCHANGED <<ct, tmpfs>>

\* lines 164-166 and extract_frames (video.py lines 12-45): the video has any
\* number of frames and any of the chosen frames may fail to be read
VideoExtractFrames ==
    /\ ing.pc = "extract_frames"
    /\ \E total_frames \in 0..MaxFrames :
          IF total_frames <= 0
          THEN /\ ing' = [ing EXCEPT !.frames = <<>>, !.pc = "get_analyzer"]
               /\ UNCHANGED tmpfs
          ELSE LET indices == FrameIndices(total_frames, settings.video_max_frames)
                   temp_dir == NewTempDir("clonebot_frames_")
               IN  \E readable \in SUBSET (1..Len(indices)) :
                      LET read == SelectSeq([i \in 1..Len(indices) |-> i],
                                            LAMBDA i : i \in readable)
                          extracted == [i \in 1..Len(read) |->
                                          [parent |-> temp_dir, idx |-> indices[read[i]]]]
                      IN  /\ tmpfs' = MakeTempDir("clonebot_frames_")
                          /\ ing' = [ing EXCEPT
                                 !.frames = extracted,
                                 !.created = @ \cup {temp_dir},
                                 !.temp_dirs = IF extracted /= <<>>
                                               THEN Append(@, extracted[1].parent)
                                               ELSE @,
                                 !.pc = "get_analyzer"]
    /\ UNCHANGED ct

\* lines 168-171: get_vision_analyzer() returns or raises
VideoGetAnalyzer ==
    /\ ing.pc = "get_analyzer"
    /\ \/ ing' = Raise(ing, "ValueError")
       \/ ing' = [ing EXCEPT !.fi = 1,
                             !.pc = IF ing.frames = <<>> THEN "extract_audio"
                                    ELSE "describe"]
    /\ UNCHANGED <<ct, tmpfs>>

\* lines 173-175: one iteration of the loop over the frames
VideoDescribeFrame ==
    /\ ing.pc = "describe"
    /\ \/ ing' = Raise(ing, "APIError")
       \/ \E desc \in Descriptions :
             ing' = [ing EXCEPT
                 !.frame_descriptions =
                     Append(@, <<"[Frame", " ", ToString(ing.fi) \o "]", " ">> \o desc),
                 !.fi = @ + 1,
                 !.pc = IF ing.fi = Len(ing.frames) THEN "extract_audio" ELSE "describe"]
    /\ UNCHANGED <<ct, tmpfs>>

\* lines 178-182 and extract_audio (video.py lines 48-69): the directory is made
\* first; ffmpeg is missing, exits with an error, writes no or an empty file,
\* or writes the audio
\* what extract_audio returns for an outcome of ffmpeg: out_path when the run
\* ended well and out_path exists with a size above 0, else None
AudioPath(ffmpeg, temp_dir) ==
    IF ffmpeg = "audio"
    THEN [assigned |-> TRUE, is_none |-> FALSE, parent |-> temp_dir]
    ELSE [assigned |-> TRUE, is_none |-> TRUE]

\* the outcomes of the ffmpeg run: the program is not found, it exits with an
\* error, it writes no file, it writes a file of zero bytes, it writes audio
FfmpegOutcomes == {"FileNotFoundError", "CalledProcessError", "missing", "empty", "audio"}

\* lines 178-182 without the test of audio_path: the transcriber is called
\* whatever extract_audio returned
VideoExtractAudioUnguarded ==
    /\ ing.pc = "extract_audio"
    /\ LET temp_dir == NewTempDir("clonebot_audio_")
       IN  /\ tmpfs' = MakeTempDir("clonebot_audio_")
           /\ \E ffmpeg \in FfmpegOutcomes :
                 ing' = [ing EXCEPT !.created = @ \cup {temp_dir},
                                    !.audio_path = AudioPath(ffmpeg, temp_dir),
                                    !.temp_dirs = IF ffmpeg = "audio"
                                                  THEN Append(@, temp_dir) ELSE @,
                                    !.pc = "transcribe"]
    /\ UNCHANGED ct

VideoExtractAudio ==
    /\ ing.pc = "extract_audio"
    /\ LET temp_dir == NewTempDir("clonebot_audio_")
       IN  /\ tmpfs' = MakeTempDir("clonebot_audio_")
           /\ \E ffmpeg \in FfmpegOutcomes :
                 LET audio_path == AudioPath(ffmpeg, temp_dir)
                 IN  IF ~audio_path.is_none
                     THEN ing' = [ing EXCEPT !.created = @ \cup {temp_dir},
                                             !.audio_path = audio_path,
                                             !.temp_dirs = Append(@, temp_dir),
                                             !.pc = "transcribe"]
                     ELSE ing' = [ing EXCEPT !.created = @ \cup {temp_dir},
                                             !.audio_path = audio_path,
                                             !.pc = "build"]
    /\ UNCHANGED ct

\* lines 183-184: transcribe_audio returns the transcript or raises
VideoTranscribe ==
    /\ ing.pc = "transcribe"
    /\ \/ ing' = Raise(ing, "APIError")
       \/ \E transcript \in Transcripts :
             ing' = [ing EXCEPT !.transcript = transcript, !.pc = "build"]
    /\ UNCHANGED <<ct, tmpfs>>

\* lines 187-193
VideoAnalysis(frame_descriptions, transcript) ==
    LET visual == IF frame_descriptions /= <<>>
                  THEN << <<"Visual", " ", "analysis:", "\n">>
                            \o Join(<<"\n">>, frame_descriptions) >>
                  ELSE <<>>
        audio == IF transcript /= <<>>
                 THEN << <<"Audio", " ", "transcript:", "\n">> \o transcript >>
                 ELSE <<>>
    IN  Join(<<"\n", "\n">>, visual \o audio)

\* for d in temp_dirs: shutil.rmtree(d, ignore_errors=True)
RemoveTempDirs(temp_dirs) ==
    [tmpfs EXCEPT !.live = @ \ { temp_dirs[i] : i \in 1..Len(temp_dirs) }]

\* lines 186-205: the text, the cleanup, the single chunk, and the call of
\* chunk_text when the text has more words than chunk_size
VideoBuild ==
    /\ ing.pc = "build"
    /\ LET text == BuildMediaText("Video", ing.file.name, ing.tags, ing.description,
                                  VideoAnalysis(ing.frame_descriptions, ing.transcript))
           chunks == <<Chunk(text, DictSet(ing.meta, "chunk_index", "0"))>>
       IN  /\ tmpfs' = RemoveTempDirs(ing.temp_dirs)
           /\ IF Len(SplitWords(text)) > settings.chunk_size
              THEN /\ ing' = [ing EXCEPT !.text = text, !.pc = "rechunk"]
                   /\ CallChunkText(text, ing.meta)
              ELSE /\ ing' = Return([ing EXCEPT !.text = text], chunks)
                   /\ UNCHANGED ct

\* lines 205-211: the chunks of chunk_text get the format and the tags
VideoRechunked ==
    /\ ing.pc = "rechunk"
    /\ ct.pc = "done"
    /\ ing' = Return(ing, [i \in 1..Len(ct.result) |->
                              [ct.result[i] EXCEPT
                                  !.metadata = MediaMeta(@, "video", ing.tags)]])
    /\ UNCHANGED <<ct, tmpfs>>

\* chunk_text runs for the handler that called it
IngestChunkTextStep == ing.pc \in {"chunk_text", "rechunk"} /\ ChunkTextStep /\ UNCHANGED <<ing, tmpfs>>

\* a direct call of ingest_file on one entry
InitIngest ==
    /\ \E k \in 1..Len(Catalog), tags \in TagChoices, description \in DescriptionChoices,
          use_vision \in BOOLEAN :
          /\ Catalog[k].is_file
          /\ ing = IngestFileCall(Catalog[k], tags, description, use_vision)
    /\ settings \in SettingsChoices
    /\ ct = NoCall /\ vf = NoCall /\ cc = NoCall /\ dir = NoCall
    /\ tmpfs = NoTempDirs
    /\ ef = NoCall /\ cli = NoCall /\ sess = NoCall

\* what a step of ingest_file leaves alone
IngestFrame == <<vf, cc, dir, settings, ef, cli, sess>>

NextIngest ==
    \/ IngestDispatch /\ UNCHANGED IngestFrame
    \/ IngestImage /\ UNCHANGED IngestFrame
    \/ IngestText /\ UNCHANGED IngestFrame
    \/ IngestJson /\ UNCHANGED IngestFrame
    \/ IngestDocument /\ UNCHANGED IngestFrame
    \/ IngestCsv /\ UNCHANGED IngestFrame
    \/ IngestDoc /\ UNCHANGED IngestFrame
    \/ IngestChunkTextReturn /\ UNCHANGED IngestFrame
    \/ VideoStart /\ UNCHANGED IngestFrame
    \/ VideoExtractFrames /\ UNCHANGED IngestFrame
    \/ VideoGetAnalyzer /\ UNCHANGED IngestFrame
    \/ VideoDescribeFrame /\ UNCHANGED IngestFrame
    \/ VideoExtractAudio /\ UNCHANGED IngestFrame
    \/ VideoTranscribe /\ UNCHANGED IngestFrame
    \/ VideoBuild /\ UNCHANGED IngestFrame
    \/ VideoRechunked /\ UNCHANGED IngestFrame
    \/ IngestChunkTextStep /\ UNCHANGED IngestFrame

SpecIngest == InitIngest /\ [][NextIngest]_vars

-----------------------------------------------------------------------------
(* extract_frames, media/video.py: the choice of the frames *)

\* a direct call of extract_frames(video_path, max_frames) on a video of
\* total_frames frames
InitFrames ==
    /\ \E total_frames \in 0..MaxTotalFrames, max_frames \in 1..MaxFramesArg :
          ef = [pc |-> "call", total_frames |-> total_frames,
                max_frames |-> max_frames, indices |-> <<>>]
    /\ ct = NoCall /\ vf = NoCall /\ cc = NoCall /\ ing = NoCall /\ dir = NoCall
    /\ cli = NoCall /\ sess = NoCall
    /\ tmpfs = NoTempDirs
    /\ settings = DefaultSettings

\* lines 21-23: a video without frames gives no index and no directory
ExtractFramesEmpty ==
    /\ ef.pc = "call"
    /\ ef.total_frames <= 0
    /\ ef' = [ef EXCEPT !.pc = "returned"]

\* lines 25-30: the indices of the frames that the loop of lines 35-42 reads
ExtractFramesIndices ==
    /\ ef.pc = "call"
    /\ ~(ef.total_frames <= 0)
    /\ ef' = [ef EXCEPT !.indices = FrameIndices(ef.total_frames, ef.max_frames),
                        !.pc = "indices"]

NextFrames ==
    \/ ExtractFramesEmpty /\ UNCHANGED <<ct, vf, cc, ing, dir, tmpfs, settings, cli, sess>>
    \/ ExtractFramesIndices /\ UNCHANGED <<ct, vf, cc, ing, dir, tmpfs, settings, cli, sess>>

SpecFrames == InitFrames /\ [][NextFrames]_vars

-----------------------------------------------------------------------------
(* the chat command, cli.py, with config/settings.py and llm/provider.py *)

\* get_settings(): return Settings(). Every call builds a new object from the
\* environment (CLONEBOT_LLM_PROVIDER, CLONEBOT_LLM_MODEL, or the defaults);
\* no call sees what was assigned to the object of another call.
GetSettings(env) == [llm_provider |-> env.llm_provider, llm_model |-> env.llm_model]

\* str.lower() on the provider names of the model
ProviderLower(name) ==
    CASE name = "OpenAI" -> "openai"
      [] name = "Anthropic" -> "anthropic"
      [] OTHER -> name

\* get_llm_provider(), provider.py lines 19-33, in the environment env
GetLlmProvider(env) ==
    LET s == GetSettings(env)
        provider == ProviderLower(s.llm_provider)
    IN  IF provider = "openai"
        THEN [raised |-> FALSE, llm |-> [class |-> "OpenAIProvider", model |-> s.llm_model]]
        ELSE IF provider = "anthropic"
        THEN [raised |-> FALSE, llm |-> [class |-> "AnthropicProvider", model |-> s.llm_model]]
        ELSE IF provider = "ollama"
        THEN [raised |-> FALSE, llm |-> [class |-> "OllamaProvider", model |-> s.llm_model]]
        ELSE [raised |-> TRUE, llm |-> [class |-> "None", model |-> ""]]

\* the provider names and model names of the model; "" is an option not given
\* (None), which `if provider:` and `if model:` treat as they treat ""
ProviderNames == {"openai", "anthropic", "ollama", "Anthropic", "gemini"}
ModelNames == {"gpt-4o", "claude-3", "llama3"}

\* clonebot chat NAME [--provider P] [--model M] in an environment
InitCli ==
    /\ \E provider \in {""} \cup ProviderNames, model \in {""} \cup ModelNames,
          env \in [llm_provider : ProviderNames, llm_model : ModelNames] :
          cli = [pc |-> "call", provider |-> provider, model |-> model, env |-> env,
                 settings |-> GetSettings(env), llm |-> [class |-> "None", model |-> ""],
                 banner |-> <<>>, outcome |-> "none"]
    /\ ct = NoCall /\ vf = NoCall /\ cc = NoCall /\ ing = NoCall /\ dir = NoCall
    /\ tmpfs = NoTempDirs
    /\ ef = NoCall /\ sess = NoCall
    /\ settings = DefaultSettings

\* lines 241-245: the settings object of the command, with the options
\* assigned to it
CliSettings ==
    /\ cli.pc = "call"
    /\ LET s == GetSettings(cli.env)
           s1 == IF cli.provider /= "" THEN [s EXCEPT !.llm_provider = cli.provider] ELSE s
           s2 == IF cli.model /= "" THEN [s1 EXCEPT !.llm_model = cli.model] ELSE s1
       IN  cli' = [cli EXCEPT !.settings = s2, !.pc = "load"]

\* lines 247-250: the profile, the embedder and the store; the clone may be
\* missing
CliLoad ==
    /\ cli.pc = "load"
    /\ \/ cli' = [cli EXCEPT !.pc = "raised", !.outcome = "FileNotFoundError"]
       \/ cli' = [cli EXCEPT !.pc = "llm"]

\* line 251: llm = get_llm_provider()
CliGetLlmProvider ==
    /\ cli.pc = "llm"
    /\ LET got == GetLlmProvider(cli.env)
       IN  IF got.raised
           THEN cli' = [cli EXCEPT !.pc = "raised", !.outcome = "ValueError"]
           ELSE cli' = [cli EXCEPT !.llm = got.llm, !.pc = "session"]

\* lines 253-267: the session is built on llm and the panel names
\* settings.llm_provider / settings.llm_model
CliSession ==
    /\ cli.pc = "session"
    /\ cli' = [cli EXCEPT !.banner = <<cli.settings.llm_provider, cli.settings.llm_model>>,
                          !.pc = "loop"]

CliFrame == <<ct, vf, cc, ing, dir, tmpfs, settings, ef, sess>>

NextCli ==
    \/ CliSettings /\ UNCHANGED CliFrame
    \/ CliLoad /\ UNCHANGED CliFrame
    \/ CliGetLlmProvider /\ UNCHANGED CliFrame
    \/ CliSession /\ UNCHANGED CliFrame

SpecCli == InitCli /\ [][NextCli]_vars

-----------------------------------------------------------------------------
(* ChatSession, core/session.py *)

\* {"role": role, "content": content}
Message(role, content) == [role |-> role, content |-> content]

\* lines 24-26 and 40-42: the messages sent to the provider
\*   messages = [system]; messages.extend(self.history[-self.max_history:]);
\*   messages.append(user)
BuildMessages(history, max_history, user_message) ==
    <<Message("system", "prompt")>>
        \o PySlice(history, -max_history, Len(history))
        \o <<Message("user", user_message)>>

\* a new session: the history is empty; calls counts the calls made on it,
\* yielded is the list of the fragments the consumer of a stream received
InitSession ==
    /\ \E max_history \in 0..MaxMaxHistory :
          sess = [pc |-> "idle", history |-> <<>>, max_history |-> max_history,
                  calls |-> 0, method |-> "none", user_message |-> "",
                  messages |-> <<>>, full_response |-> "", yielded |-> <<>>,
                  outcome |-> "none"]
    /\ ct = NoCall /\ vf = NoCall /\ cc = NoCall /\ ing = NoCall /\ dir = NoCall
    /\ tmpfs = NoTempDirs
    /\ ef = NoCall /\ cli = NoCall
    /\ settings = DefaultSettings

\* a call of chat or of chat_stream with the next user message; the call of
\* chat_stream makes the generator and runs none of its body
SessionCall ==
    /\ sess.pc = "idle"
    /\ sess.calls < MaxCalls
    /\ \E method \in {"chat", "chat_stream"} :
          sess' = [sess EXCEPT !.pc = IF method = "chat" THEN "chat" ELSE "gen",
                                !.method = method,
                                !.calls = @ + 1,
                                !.user_message = "q" \o ToString(sess.calls + 1),
                                !.messages = <<>>, !.full_response = "",
                                !.yielded = <<>>, !.outcome = "none"]

\* lines 22-27: the retriever raises, or the messages are built
ChatRetrieve ==
    /\ sess.pc = "chat"
    /\ \/ sess' = [sess EXCEPT !.pc = "idle", !.outcome = "raised"]
       \/ sess' = [sess EXCEPT
              !.messages = BuildMessages(sess.history, sess.max_history, sess.user_message),
              !.pc = "chat_llm"]

\* lines 29-34 with the user message recorded before the provider answers
ChatLlmUserFirst ==
    /\ sess.pc = "chat_llm"
    /\ \/ sess' = [sess EXCEPT
              !.history = Append(@, Message("user", sess.user_message)),
              !.pc = "idle", !.outcome = "raised"]
       \/ LET response == "r" \o ToString(sess.calls)
          IN  sess' = [sess EXCEPT
                  !.history = @ \o <<Message("user", sess.user_message),
                                     Message("assistant", response)>>,
                  !.full_response = response,
                  !.pc = "idle", !.outcome = "returned"]

\* lines 29-34: the provider raises, or it answers and the two entries are
\* appended
ChatLlm ==
    /\ sess.pc = "chat_llm"
    /\ \/ sess' = [sess EXCEPT !.pc = "idle", !.outcome = "raised"]
       \/ LET response == "r" \o ToString(sess.calls)
          IN  sess' = [sess EXCEPT
                  !.history = @ \o <<Message("user", sess.user_message),
                                     Message("assistant", response)>>,
                  !.full_response = response,
                  !.pc = "idle", !.outcome = "returned"]

\* lines 37-44, run by the first next() on the generator: the retriever
\* raises, or the messages are built and the provider's stream is opened
StreamStart ==
    /\ sess.pc = "gen"
    /\ \/ sess' = [sess EXCEPT !.pc = "idle", !.outcome = "raised"]
       \/ sess' = [sess EXCEPT
              !.messages = BuildMessages(sess.history, sess.max_history, sess.user_message),
              !.full_response = "",
              !.pc = "stream"]

\* lines 45-47: the provider gives a fragment, which is added to
\* full_response and yielded
StreamFragment ==
    /\ sess.pc = "stream"
    /\ Len(sess.yielded) < MaxFragments
    /\ LET chunk == Letters[Len(sess.yielded) + 1]
       IN  sess' = [sess EXCEPT !.full_response = @ \o chunk,
                                !.yielded = Append(@, chunk)]

\* the provider's stream raises and the partial response is recorded
StreamRaiseRecordsPartial ==
    /\ sess.pc = "stream"
    /\ sess' = [sess EXCEPT
           !.history = @ \o <<Message("user", sess.user_message),
                              Message("assistant", sess.full_response)>>,
           !.pc = "idle", !.outcome = "raised"]

\* line 45: the provider's stream raises; the exception leaves the generator
StreamRaise ==
    /\ sess.pc = "stream"
    /\ sess' = [sess EXCEPT !.pc = "idle", !.outcome = "raised"]

\* lines 49-50: the provider's stream is exhausted and the two entries are
\* appended
StreamEnd ==
    /\ sess.pc = "stream"
    /\ sess' = [sess EXCEPT
           !.history = @ \o <<Message("user", sess.user_message),
                              Message("assistant", sess.full_response)>>,
           !.pc = "idle", !.outcome = "returned"]

\* the consumer stops iterating: the generator is closed where it stands,
\* before its first statement or at the yield of line 47
StreamClose ==
    /\ \/ sess.pc = "gen"
       \/ sess.pc = "stream" /\ sess.yielded /= <<>>
    /\ sess' = [sess EXCEPT !.pc = "idle", !.outcome = "closed"]

SessionFrame == <<ct, vf, cc, ing, dir, tmpfs, settings, ef, cli>>

NextSession ==
    \/ SessionCall /\ UNCHANGED SessionFrame
    \/ ChatRetrieve /\ UNCHANGED SessionFrame
    \/ ChatLlm /\ UNCHANGED SessionFrame
    \/ StreamStart /\ UNCHANGED SessionFrame
    \/ StreamFragment /\ UNCHANGED SessionFrame
    \/ StreamRaise /\ UNCHANGED SessionFrame
    \/ StreamEnd /\ UNCHANGED SessionFrame
    \/ StreamClose /\ UNCHANGED SessionFrame

SpecSession == InitSession /\ [][NextSession]_vars
-----------------------------------------------------------------------------
(* ingest_directory, memory/ingest.py lines 59-93 *)

\* line 79
Supported == IngestTextExtensions \cup ImageExtensions \cup VideoExtensions

\* an ingest_directory call, with what sorted(dir_path.rglob("*")) gives
\* (files: positions in Catalog, ascending) and before the loop's first turn;
\* log is the record of the ingest_file calls made: it is not program state
IngestDirectoryCall(files, tags, description, use_vision) ==
    [pc |-> "loop", files |-> files, k |-> 1, tags |-> tags, description |-> description,
     use_vision |-> use_vision, all_chunks |-> <<>>, errors |-> <<>>, log |-> <<>>,
     result |-> <<>>]

\* the entry the loop is at
DirEntry == Catalog[dir.files[dir.k]]

\* line 84
IsSupportedFile(f) == f.is_file /\ Lower(f.suffix) \in Supported

\* lines 84-85: continue
DirSkip ==
    /\ dir.pc = "loop"
    /\ dir.k <= Len(dir.files)
    /\ ~IsSupportedFile(DirEntry)
    /\ dir' = [dir EXCEPT !.k = @ + 1]
    /\ UNCHANGED <<ct, vf, cc, ing, tmpfs, settings, ef, cli, sess>>

\* lines 86-88: the call of ingest_file
DirIngestFile ==
    /\ dir.pc = "loop"
    /\ dir.k <= Len(dir.files)
    /\ IsSupportedFile(DirEntry)
    /\ ing' = IngestFileCall(DirEntry, dir.tags, dir.description, dir.use_vision)
    /\ dir' = [dir EXCEPT !.pc = "ingest_file"]
    /\ UNCHANGED <<ct, vf, cc, tmpfs, settings, ef, cli, sess>>

\* the whole list numbered again after extend
ExtendChunksRenumbered(all_chunks, chunks) == AddChunkIndex(all_chunks \o chunks)

\* all_chunks = chunks, in the place of extend
ReplaceChunks(all_chunks, chunks) == chunks

\* all_chunks.extend(chunks)
ExtendChunks(all_chunks, chunks) == all_chunks \o chunks

\* lines 87-89: ingest_file returned
DirFileReturned ==
    /\ dir.pc = "ingest_file"
    /\ ing.pc = "returned"
    /\ dir' = [dir EXCEPT
           !.all_chunks = ExtendChunks(@, ing.result),
           !.log = Append(@, [file |-> dir.files[dir.k], outcome |-> "ok",
                              chunks |-> ing.result]),
           !.k = @ + 1,
           !.pc = "loop"]
    /\ ing' = NoCall
    /\ UNCHANGED <<ct, vf, cc, tmpfs, settings, ef, cli, sess>>

\* the exception classes ingest_file raises, each with its base classes up to
\* Exception (FileTypeMismatchError is a ValueError, validate.py line 6)
Bases ==
    [FileTypeMismatchError |-> {"ValueError", "Exception"},
     ValueError |-> {"Exception"},
     RuntimeError |-> {"Exception"},
     ImportError |-> {"Exception"},
     JSONDecodeError |-> {"ValueError", "Exception"},
     AttributeError |-> {"Exception"},
     FileDataError |-> {"RuntimeError", "Exception"},
     APIError |-> {"Exception"}]

\* except ValueError, in the place of except Exception
CaughtOnlyValueError(e) == "ValueError" \in Bases[e] \cup {e}

\* line 90: except Exception
Caught(e) == "Exception" \in Bases[e] \cup {e}

\* lines 90-91: ingest_file raised; an exception the clause does not catch
\* leaves ingest_directory
DirFileRaised ==
    /\ dir.pc = "ingest_file"
    /\ ing.pc = "raised"
    /\ IF Caught(ing.outcome)
       THEN dir' = [dir EXCEPT
                !.errors = Append(@, <<DirEntry.name, ing.outcome>>),
                !.log = Append(@, [file |-> dir.files[dir.k], outcome |-> ing.outcome,
                                   chunks |-> <<>>]),
                !.k = @ + 1,
                !.pc = "loop"]
       ELSE dir' = [dir EXCEPT !.pc = "escaped"]
    /\ ing' = NoCall
    /\ UNCHANGED <<ct, vf, cc, tmpfs, settings, ef, cli, sess>>

\* line 93
DirReturn ==
    /\ dir.pc = "loop"
    /\ dir.k > Len(dir.files)
    /\ dir' = [dir EXCEPT !.pc = "returned", !.result = <<dir.all_chunks, dir.errors>>]
    /\ UNCHANGED <<ct, vf, cc, ing, tmpfs, settings, ef, cli, sess>>

\* the entries a directory of the model may hold: one for each handler of
\* ingest_file (a text, a chat log, a broken JSON file, a CSV export, a PDF, a
\* .doc, a picture, a video), a text with the bytes of a picture, a
\* subdirectory, and a file of no supported type
DirNames ==
    {"a_notes.txt", "b_chat.txt", "c_bad.txt", "f_torn.json", "g_chat.csv", "j_doc.pdf",
     "l_old.doc", "m_pic.png", "n_clip.mp4", "p_sub", "q_data.xyz"}

\* the listings of at most n of these entries, each in sorted order
RECURSIVE Listings(_, _)
Listings(from, n) ==
    IF n = 0 \/ from > Len(Catalog) THEN {<<>>}
    ELSE {<<>>} \cup UNION { { <<k>> \o rest : rest \in Listings(k + 1, n - 1) } :
                             k \in { j \in from..Len(Catalog) : Catalog[j].name \in DirNames } }

\* the settings a directory is ingested under: chunk_text returns under each of
\* them, and the smaller size splits the texts of the catalog
DirSettingsChoices ==
    { s \in SettingsChoices : /\ s.chunk_size \in {2, MaxSize}
                              /\ s.chunk_overlap \in {0, 1}
                              /\ s.video_max_frames = 1 }

InitDir ==
    /\ \E files \in Listings(1, MaxDirFiles), tags \in TagChoices, use_vision \in BOOLEAN :
          dir = IngestDirectoryCall(files, tags, <<>>, use_vision)
    /\ settings \in DirSettingsChoices
    /\ ct = NoCall /\ vf = NoCall /\ cc = NoCall /\ ing = NoCall
    /\ tmpfs = NoTempDirs
    /\ ef = NoCall /\ cli = NoCall /\ sess = NoCall

\* a step of ingest_directory itself
DirStep ==
    \/ DirSkip
    \/ DirIngestFile
    \/ DirFileReturned
    \/ DirFileRaised
    \/ DirReturn

NextDir ==
    \/ DirSkip
    \/ DirIngestFile
    \/ DirFileReturned
    \/ DirFileRaised
    \/ DirReturn
    \/ NextIngest

SpecDir == InitDir /\ [][NextDir]_vars
\* direct calls of chunk_text, of chunk_chat_messages and of ingest_file
InitCalls == InitChunk \/ InitChat \/ InitIngest

NextCalls ==
    \/ NextChunk
    \/ NextChat
    \/ NextIngest

SpecCalls == InitCalls /\ [][NextCalls]_vars
-----------------------------------------------------------------------------
(* Properties of ingest_file and ingest_directory *)

\* C1: when a call of ingest_file on a video has ended, by a return or by an
\* exception, no temporary directory made during the call is left
C1_TempDirsRemoved ==
    (ing.pc \in {"returned", "raised"} /\ Handler(Lower(ing.file.suffix)) = "video")
        => ing.created \cap tmpfs.live = {}

\* the chunk_index values of a list, in list order, are "0", "1", ..., "n-1"
Indexed(chunks) ==
    \A i \in 1..Len(chunks) :
        /\ "chunk_index" \in DOMAIN chunks[i].metadata
        /\ chunks[i].metadata["chunk_index"] = ToString(i - 1)

\* C4: the chunks a call of chunk_text, of chunk_chat_messages or of ingest_file
\* returns carry the chunk_index values "0", "1", ..., "n-1" in list order
C4_IndexPerCall ==
    /\ ct.pc = "done" => Indexed(ct.result)
    /\ cc.pc = "done" => Indexed(cc.result)
    /\ ing.pc = "returned" => Indexed(ing.result)

\* a video whose text was chunked again has returned several chunks
C4_Witness ==
    /\ ing.pc = "returned"
    /\ Handler(Lower(ing.file.suffix)) = "video"
    /\ ing.frame_descriptions /= <<>>
    /\ Len(ing.result) >= 3

\* the entries of a listing that ingest_directory hands to ingest_file
RECURSIVE SupportedOf(_)
SupportedOf(files) ==
    IF files = <<>> THEN <<>>
    ELSE IF IsSupportedFile(Catalog[files[1]])
         THEN <<files[1]>> \o SupportedOf(Tail(files))
         ELSE SupportedOf(Tail(files))

\* the entries the loop has gone past
Passed == SubSeq(dir.files, 1, dir.k - 1)

LogFiles == [i \in 1..Len(dir.log) |-> dir.log[i].file]

\* C2: no exception of ingest_file leaves ingest_directory; at every turn of
\* the loop the files handed to ingest_file so far are the supported files
\* passed so far, each once and in order, whatever the earlier ones did; once
\* ingest_file has ended, by a return or by an exception, ingest_directory has
\* a next step; and what it returns is the pair (chunks, errors), with every
\* supported file of the listing handed to ingest_file
C2_BatchNeverAborts ==
    /\ dir.pc \in {"idle", "loop", "ingest_file", "returned"}
    /\ dir.pc \in {"loop", "returned"} => LogFiles = SupportedOf(Passed)
    /\ dir.pc = "ingest_file" =>
          /\ LogFiles = SupportedOf(Passed)
          /\ IsSupportedFile(DirEntry)
          /\ ing.pc /= "idle"
    /\ (dir.pc = "loop" \/ (dir.pc = "ingest_file" /\ ing.pc \in {"returned", "raised"}))
          => ENABLED DirStep
    /\ dir.pc = "returned" =>
          /\ LogFiles = SupportedOf(dir.files)
          /\ dir.result = <<dir.all_chunks, dir.errors>>

\* a batch has returned after a file failed and a later file was ingested
C2_Witness ==
    /\ dir.pc = "returned"
    /\ \E i, j \in 1..Len(dir.log) :
          /\ i < j
          /\ dir.log[i].outcome = "RuntimeError"
          /\ dir.log[j].outcome = "ok"
          /\ dir.log[j].chunks /= <<>>

\* the chunk lists of the files that returned, one after the other
RECURSIVE ChunksOf(_)
ChunksOf(log) ==
    IF log = <<>> THEN <<>>
    ELSE (IF log[1].outcome = "ok" THEN log[1].chunks ELSE <<>>) \o ChunksOf(Tail(log))

\* one (path, reason) entry for each of the files that raised
RECURSIVE ErrorsOf(_)
ErrorsOf(log) ==
    IF log = <<>> THEN <<>>
    ELSE (IF log[1].outcome = "ok" THEN <<>>
          ELSE << <<Catalog[log[1].file].name, log[1].outcome>> >>) \o ErrorsOf(Tail(log))

\* C3: the chunk list returned is the chunk lists of the files whose ingest_file
\* returned, whole and in the order of the sorted listing; the error list has
\* one entry for each file whose ingest_file raised, in the same order; every
\* chunk is of a file that returned and no error is of such a file
C3_ResultAccounting ==
    dir.pc = "returned" =>
        LET chunks == dir.result[1]
            errors == dir.result[2]
            okNames == { Catalog[dir.log[i].file].name :
                            i \in { j \in 1..Len(dir.log) : dir.log[j].outcome = "ok" } }
        IN  /\ \A i, j \in 1..Len(dir.log) : i < j => dir.log[i].file < dir.log[j].file
            /\ chunks = ChunksOf(dir.log)
            /\ errors = ErrorsOf(dir.log)
            /\ \A i \in 1..Len(chunks) : chunks[i].metadata["source"] \in okNames
            /\ \A i \in 1..Len(errors) : errors[i][1] \notin okNames

\* a batch of three files has returned, the second of which failed
C3_Witness ==
    /\ dir.pc = "returned"
    /\ Len(dir.log) = 3
    /\ dir.log[1].outcome = "ok" /\ Len(dir.log[1].chunks) >= 2
    /\ dir.log[2].outcome /= "ok"
    /\ dir.log[3].outcome = "ok" /\ dir.log[3].chunks /= <<>>
    /\ Len(dir.result[2]) = 1

\* C5: the chunk_index values of the list one ingest_directory call returns
\* are "0", "1", ..., "n-1" over the whole list
C5_IndexOverBatch == dir.pc = "returned" => Indexed(dir.result[1])

\* C5 as amended: in the list one ingest_directory call returns, the
\* chunk_index values start again at "0" with each file: a chunk carries the
\* number of chunks of its own file that come before it
C5_IndexPerFile ==
    dir.pc = "returned" =>
        LET chunks == dir.result[1]
        IN  \A i \in 1..Len(chunks) :
               chunks[i].metadata["chunk_index"] =
                   ToString(Cardinality({ j \in 1..(i - 1) :
                       chunks[j].metadata["source"] = chunks[i].metadata["source"] }))

\* a batch has returned several chunks for each of two files
C5_Witness ==
    /\ dir.pc = "returned"
    /\ \E i, j \in 1..Len(dir.log) :
          /\ i < j
          /\ Len(dir.log[i].chunks) >= 2
          /\ Len(dir.log[j].chunks) >= 2
    /\ Len(dir.result[1]) >= 4
-----------------------------------------------------------------------------
(* Properties of the RIFF entries of validate_file_type *)

\* the signature table with its two RIFF entries in each other's place
RiffEntries == { k \in 1..Len(Signatures) : Signatures[k].magic = MagicRIFF }

SwappedSignatures ==
    [k \in 1..Len(Signatures) |->
        IF k \in RiffEntries
        THEN Signatures[CHOOSE j \in RiffEntries : j /= k]
        ELSE Signatures[k]]

\* the walk of lines 74-86 over a table given as an argument
RECURSIVE DetectInFrom(_, _, _)
DetectInFrom(sigs, header, k) ==
    IF k > Len(sigs) THEN NoType
    ELSE IF MagicMatches(header, sigs[k]) THEN Resolve(header, sigs[k])
    ELSE DetectInFrom(sigs, header, k + 1)

\* the verdict of lines 89-110 for a detected type
VerdictFor(suffix, header, detected) ==
    IF Lower(suffix) \in SkipValidation THEN "ok"
    ELSE IF Lower(suffix) \in TextExtensions
         THEN IF detected /= NoType \/ ~Utf8Valid(header)
              THEN "FileTypeMismatchError" ELSE "ok"
    ELSE IF detected /= NoType /\ Lower(suffix) \notin detected.exts
         THEN "FileTypeMismatchError"
    ELSE "ok"

\* the types of the RIFF sub-type table
SubtypeTypes == { RiffSubtypes[k] : k \in DOMAIN RiffSubtypes }

\* C11: for a file whose header starts with RIFF, whatever its length and its
\* bytes 8-11, the type the verdict rests on is one of the sub-type table, and
\* the verdict is the one the table with its RIFF entries swapped gives
C11_RiffBySubtype ==
    (/\ vf.pc = "done"
     /\ Lower(vf.suffix) \notin SkipValidation
     /\ PySlice(Header, 0, 4) = MagicRIFF) =>
        /\ Detect(Header) \in SubtypeTypes
        /\ vf.outcome = VerdictFor(vf.suffix, Header, DetectInFrom(SwappedSignatures, Header, 1))

\* the verdict is the one of lines 89-110 on the table as it is
VerdictIsOfTable ==
    vf.pc = "done" =>
        vf.outcome = VerdictFor(vf.suffix, Header, DetectInFrom(Signatures, Header, 1))
-----------------------------------------------------------------------------
(* Properties of ingest_file on single files *)

\* C12: ingest_file on a file whose extension is not a supported one ends with
\* the unsupported-type error (the ValueError of line 56) whatever the bytes of
\* the file: it returns no chunks and raises no type-mismatch error
C12_UnsupportedRejected ==
    (ing.pc \in {"returned", "raised"} /\ Lower(ing.file.suffix) \notin Supported) =>
        /\ ing.pc = "raised"
        /\ ing.outcome = "ValueError"
-----------------------------------------------------------------------------
(* _ingest_text on the text files of the model *)

\* the lines a text file is made of: a blank line, a line of whitespace, a
\* WhatsApp line, a "name: text" line, a "[time] name: text" line, and a line
\* that is none of these
TextLines ==
    { <<>>,
      <<" ">>,
      WaLine("0", <<"Alice">>, <<"hi">>),
      <<"Bob", ":", " ", "hey">>,
      <<"[", "9", "]", " ", "Alice", ":", " ", "yo">>,
      <<"hello", " ", "there">> }

\* the texts of at most n lines
TextsOfLines(n) == { Join(<<"\n">>, ls) : ls \in UNION { [1..k -> TextLines] : k \in 0..n } }

\* a .txt file holding a text: its first bytes are those of a plain text
TextFile(text) ==
    Entry("memo.txt", ".txt", IF text = <<>> THEN <<>> ELSE <<104, 105>>, text)

\* a direct call of ingest_file on a text file
InitText ==
    /\ \E text \in TextsOfLines(MaxLines) :
          ing = IngestFileCall(TextFile(text), <<>>, <<>>, FALSE)
    /\ settings \in DirSettingsChoices
    /\ ct = NoCall /\ vf = NoCall /\ cc = NoCall /\ dir = NoCall
    /\ tmpfs = NoTempDirs
    /\ ef = NoCall /\ cli = NoCall /\ sess = NoCall

NextText ==
    \/ IngestDispatch /\ UNCHANGED IngestFrame
    \/ IngestText /\ UNCHANGED IngestFrame
    \/ IngestChunkTextStep /\ UNCHANGED IngestFrame
    \/ IngestChunkTextReturn /\ UNCHANGED IngestFrame

SpecText == InitText /\ [][NextText]_vars
-----------------------------------------------------------------------------
(* Properties of _detect_chat_format and _ingest_text *)

\* _ingest_text has called _detect_chat_format
TextDetected ==
    /\ ing.pc \in {"chunk_text", "returned"}
    /\ Handler(Lower(ing.file.suffix)) = "text"

\* the lines of a text: a newline at the very end ends the last line
LinesOf(text) ==
    LET pieces == SplitOn(text, <<"\n">>)
    IN  IF text = <<>> THEN <<>>
        ELSE IF pieces[Len(pieces)] = <<>> THEN SubSeq(pieces, 1, Len(pieces) - 1)
        ELSE pieces

\* the lines of a text without the whitespace at its two ends
StrippedLines(text) == SplitOn(Strip(text), <<"\n">>)

\* a line matches pattern A (WhatsApp) or pattern B (generic)
MatchesChat(line) ==
    LET l == Strip(line)
    IN  l /= <<>> /\ (WhatsAppMatch(l).matched \/ GenericMatch(l).matched)

NonBlankCount(lines) == Cardinality({ i \in 1..Len(lines) : Strip(lines[i]) /= <<>> })

MatchCount(lines) == Cardinality({ i \in 1..Len(lines) : MatchesChat(lines[i]) })

\* C13: _detect_chat_format returns none for every text with fewer than 3
\* non-empty lines, however many blank lines it has and however many of its
\* lines match a chat pattern
C13_FewLinesIsNone ==
    (TextDetected /\ NonBlankCount(LinesOf(ing.file.content)) < 3) =>
        ing.chat_messages.is_none

MatchingLines(text) == SelectSeq(StrippedLines(text), MatchesChat)

\* the message of a matching line: pattern A is tried first
MessageOf(line) ==
    LET l == Strip(line)
        wa == WhatsAppMatch(l)
        gen == GenericMatch(l)
    IN  IF wa.matched THEN [speaker |-> wa.speaker, text |-> wa.text]
        ELSE [timestamp |-> gen.timestamp, speaker |-> gen.speaker, text |-> gen.text]

\* C15: a text classified as chat gives one message for each matching line, in
\* line order, pattern A tried before pattern B, nothing for the other lines;
\* the chunks returned are tagged type=chat and hold the rendered messages,
\* speakers first, in that order
C15_MessagePerMatchingLine ==
    (TextDetected /\ ~ing.chat_messages.is_none) =>
        LET matching == MatchingLines(ing.file.content)
            messages == ing.chat_messages.messages
        IN  /\ messages = [i \in 1..Len(matching) |-> MessageOf(matching[i])]
            /\ ing.pc = "returned"
            /\ \A i \in 1..Len(ing.result) :
                  /\ ing.result[i].metadata["type"] = "chat"
                  /\ ing.result[i].metadata["format"] = "chat"
            /\ Join(<<"\n">>, [i \in 1..Len(ing.result) |-> ing.result[i].text])
                  = Join(<<"\n">>, [i \in 1..Len(messages) |-> ChatLine(messages[i])])

\* three lines from Alice, Bob and Alice, and a line that matches nothing, have
\* given the speakers Alice, Bob, Alice in chat chunks
C15_Witness ==
    /\ TextDetected
    /\ ~ing.chat_messages.is_none
    /\ Len(StrippedLines(ing.file.content)) = 4
    /\ [i \in 1..Len(ing.chat_messages.messages) |-> ing.chat_messages.messages[i].speaker]
          = << <<"Alice">>, <<"Bob">>, <<"Alice">> >>
    /\ Len(ing.result) >= 2
-----------------------------------------------------------------------------
(* Properties of chunk_chat_messages *)

\* the rendered lines of a message list
RenderedLines(messages) == [i \in 1..Len(messages) |-> ChatLine(messages[i])]

RECURSIVE WordsIn(_)
WordsIn(lines) ==
    IF lines = <<>> THEN 0 ELSE Len(SplitWords(lines[1])) + WordsIn(Tail(lines))

\* the chunks are the lines cut into runs of whole lines, in order, with a cut
\* only where the next line would take the run over the size
RECURSIVE WholeLines(_, _, _)
WholeLines(chunks, lines, size) ==
    IF chunks = <<>> THEN lines = <<>>
    ELSE \E n \in 1..Len(lines) :
            /\ chunks[1].text = Join(<<"\n">>, SubSeq(lines, 1, n))
            /\ n < Len(lines) =>
                  WordsIn(SubSeq(lines, 1, n)) + Len(SplitWords(lines[n + 1])) > size
            /\ WholeLines(Tail(chunks), SubSeq(lines, n + 1, Len(lines)), size)

\* C16: chunk_chat_messages never splits a message: every rendered line is
\* whole in one chunk, the lines keep their order, the chunk texts joined with
\* newlines are the rendering of all the messages, and a chunk ends before a
\* line only when that line would take it over the size
C16_MessagesWhole ==
    cc.pc = "done" =>
        LET lines == RenderedLines(cc.messages)
        IN  /\ WholeLines(cc.result, lines, cc.chunk_size)
            /\ Join(<<"\n">>, [i \in 1..Len(cc.result) |-> cc.result[i].text])
                  = Join(<<"\n">>, lines)

\* three messages have given a chunk of two lines and a chunk of one
C16_Witness ==
    /\ cc.pc = "done"
    /\ Len(cc.messages) = 3
    /\ Len(cc.result) = 2
    /\ cc.result[1].text
          = ChatLine(cc.messages[1]) \o <<"\n">> \o ChatLine(cc.messages[2])
    /\ DictGet(cc.messages[2], "timestamp", <<>>) /= <<>>

-----------------------------------------------------------------------------
(* C17: the caller's metadata mapping and the chunks' own mappings *)

\* chunks whose metadata are dicts of their own, each the items of base plus
\* its chunk_index
OwnMetadata(chunks, base) ==
    \A i \in 1..Len(chunks) :
        /\ chunks[i].meta_ref = "new"
        /\ chunks[i].metadata = DictSet(base, "chunk_index", ToString(i - 1))

\* C17: chunk_text and chunk_chat_messages leave the caller's metadata mapping
\* as it was given (no step of a call changes it, and it carries no
\* chunk_index or type key after the call unless it did before), and every
\* chunk returned holds a dict of its own that no other chunk and not the
\* caller holds, equal to the caller's mapping plus chunk_index, plus
\* type=chat for the chunks of chunk_chat_messages only.
C17_MetadataNotShared ==
    /\ [](ct.pc = "done" => OwnMetadata(ct.result, ct.metadata))
    /\ [](cc.pc = "done" =>
             OwnMetadata(cc.result, DictSet(cc.metadata, "type", "chat")))
    /\ [](cc.pc = "done" => DOMAIN cc.metadata \subseteq {"source"})
    /\ [][(ct.pc \notin {"idle", "done"} /\ ct'.pc \notin {"idle", "call"})
             => ct'.metadata = ct.metadata]_vars
    /\ [][(cc.pc = "call" /\ cc'.pc = "done") => cc'.metadata = cc.metadata]_vars

\* a chunk_text call on a non-empty mapping that returned chunks of the
\* accumulator and of _split_long_text
C17_Witness ==
    /\ ct.pc = "done"
    /\ ct.metadata /= EmptyDict
    /\ Len(ct.split_chunks) >= 2
    /\ Len(ct.result) > Len(ct.split_chunks)

-----------------------------------------------------------------------------
(* C18: a video whose audio could not be extracted *)

\* extract_audio was called and returned None
AudioFailed ==
    /\ ing.pc /= "idle"
    /\ ing.audio_path.assigned
    /\ ing.audio_path.is_none

\* C18: when ffmpeg is not found, exits with an error, or leaves no file or a
\* file of zero bytes, extract_audio returns None, the transcriber is not
\* called (the call never stands at the transcription and the transcript
\* stays empty), and the call of ingest_file ends by returning at least one
\* chunk, never by an exception; at the audio extraction both outcomes, None
\* and a path, are possible with frame analysis on and off.
C18_AudioFailureSkipsTranscription ==
    /\ AudioFailed =>
          /\ ing.pc \in {"build", "rechunk", "returned"}
          /\ ing.transcript = <<>>
          /\ ing.pc = "returned" => (ing.outcome = "ok" /\ Len(ing.result) >= 1)
    /\ (ing.pc = "transcribe") => (ing.audio_path.assigned /\ ~ing.audio_path.is_none)
    /\ (ing.pc = "extract_audio") =>
          /\ ENABLED (VideoExtractAudio /\ ing'.audio_path.is_none)
          /\ ENABLED (VideoExtractAudio /\ ~ing'.audio_path.is_none)

\* a video analysed frame by frame whose audio extraction failed and that
\* returned its chunks all the same
C18_Witness ==
    /\ AudioFailed
    /\ ing.pc = "returned"
    /\ ing.use_vision
    /\ ing.frame_descriptions /= <<>>
    /\ Len(ing.result) >= 2

\* the same without frame analysis
C18_WitnessNoVision ==
    /\ AudioFailed
    /\ ing.pc = "returned"
    /\ ~ing.use_vision
    /\ Len(ing.result) = 1

-----------------------------------------------------------------------------
(* C19: the frames extract_frames chooses *)

\* C19: for a video of T >= 1 frames and M >= 1 frames asked for,
\* extract_frames chooses every index 0..T-1 when T <= M and otherwise the
\* indices floor(T*i/M) for i = 0..M-1; the indices are strictly increasing,
\* start at 0, are below T and number min(T, M); for T = 100 and M = 5 they
\* are 0, 20, 40, 60, 80.
C19_FrameIndicesFloor ==
    ef.pc = "indices" =>
        LET T == ef.total_frames
            M == ef.max_frames
            indices == ef.indices
        IN  /\ indices = IF T <= M THEN [i \in 1..T |-> i - 1]
                         ELSE [i \in 1..M |-> (T * (i - 1)) \div M]
            /\ Len(indices) = IF T <= M THEN T ELSE M
            /\ indices[1] = 0
            /\ \A i \in 1..Len(indices) : indices[i] < T
            /\ \A i \in 1..(Len(indices) - 1) : indices[i] < indices[i + 1]
            /\ (T = 100 /\ M = 5) => indices = <<0, 20, 40, 60, 80>>

\* C19, as the code computes it: the indices are every index 0..T-1 when
\* T <= M and otherwise int(step * i) in double arithmetic with step = T / M,
\* which is floor(T*i/M) or one less; they are strictly increasing, start at
\* 0, are below T and number min(T, M); for T = 100 and M = 5 they are 0, 20,
\* 40, 60, 80.
C19_FrameIndicesNearFloor ==
    ef.pc = "indices" =>
        LET T == ef.total_frames
            M == ef.max_frames
            indices == ef.indices
        IN  /\ Len(indices) = IF T <= M THEN T ELSE M
            /\ indices[1] = 0
            /\ \A i \in 1..Len(indices) : indices[i] < T
            /\ \A i \in 1..(Len(indices) - 1) : indices[i] < indices[i + 1]
            /\ (T = 100 /\ M = 5) => indices = <<0, 20, 40, 60, 80>>
            /\ T <= M => indices = [i \in 1..T |-> i - 1]
            /\ T > M => \A i \in 1..M :
                   (T * (i - 1)) \div M - indices[i] \in {0, 1}

\* a video of 30 frames with 22 asked for: the twelfth index is 14, one below
\* floor(30 * 11 / 22) = 15
C19_Witness ==
    /\ ef.pc = "indices"
    /\ ef.total_frames = 30
    /\ ef.max_frames = 22
    /\ ef.indices[12] = 14

-----------------------------------------------------------------------------
(* C20: a JSON array of records *)

\* the call of ingest_file on a .json file ended, the file holding a
\* non-empty array of which every item is a record
JsonRecordsDone ==
    /\ ing.pc \in {"returned", "raised"}
    /\ Handler(Lower(ing.file.suffix)) = "json"
    /\ ing.outcome /= "FileTypeMismatchError"
    /\ ing.file.content.loads = "ok"
    /\ ing.file.content.is_list
    /\ ing.file.content.items /= <<>>
    /\ \A i \in 1..Len(ing.file.content.items) : ing.file.content.items[i].is_dict

HasTextField(item) == \E k \in {"text", "message", "content"} : k \in DOMAIN item.d

\* the chunks are those of chunk_chat_messages under the format chat_json
ChunkedAsChatJson ==
    /\ ing.result /= <<>>
    /\ \A i \in 1..Len(ing.result) :
          /\ DictGet(ing.result[i].metadata, "type", "") = "chat"
          /\ DictGet(ing.result[i].metadata, "format", "") = "chat_json"

\* the chunks are those of chunk_text on the text json.dumps gave, which
\* carry neither a type nor a format
ChunkedAsPlainJson ==
    /\ Join(<<" ">>, [i \in 1..Len(ing.result) |-> ing.result[i].text])
          = Join(<<" ">>, SplitWords(ing.file.content.dumps))
       \/ settings.chunk_overlap > 0
       \/ settings.chunk_size = 0
    /\ \A i \in 1..Len(ing.result) :
          /\ "type" \notin DOMAIN ing.result[i].metadata
          /\ "format" \notin DOMAIN ing.result[i].metadata

\* C20: a non-empty JSON array of records is chunked as chat under the format
\* chat_json exactly when every record has a text, message or content field;
\* in every other case, an array of which only some records have such a
\* field included, it is chunked as plain text; no such array ends in an
\* exception.
C20_ChatIffEveryRecord ==
    JsonRecordsDone =>
        /\ ing.pc = "returned"
        /\ IF \A i \in 1..Len(ing.file.content.items) :
                  HasTextField(ing.file.content.items[i])
           THEN ChunkedAsChatJson
           ELSE ChunkedAsPlainJson

\* what the code decides on: the first record alone
JsonChatIffFirstRecord ==
    JsonRecordsDone =>
        /\ ing.pc = "returned"
        /\ IF HasTextField(ing.file.content.items[1])
           THEN ChunkedAsChatJson
           ELSE ChunkedAsPlainJson

-----------------------------------------------------------------------------
(* C21: the conversion of a legacy .doc file *)

\* C21: a call of ingest_file on a .doc file that passed validation ends, for
\* every outcome of antiword and of pypandoc, either by returning chunks made
\* from a non-empty converted text or by the RuntimeError that names the
\* converters to install; it never returns an empty chunk list.
C21_DocNeverSilentlyEmpty ==
    (/\ ing.pc \in {"returned", "raised"}
     /\ Handler(Lower(ing.file.suffix)) = "doc"
     /\ ing.outcome /= "FileTypeMismatchError") =>
        IF ing.pc = "returned"
        THEN /\ ing.result /= <<>>
             /\ \A i \in 1..Len(ing.result) : Strip(ing.result[i].text) /= <<>>
        ELSE ing.outcome = "RuntimeError"

-----------------------------------------------------------------------------
(* C22: chunk_text without overlap *)

\* the words of the chunks, in the order of the chunks
RECURSIVE WordsOfChunks(_)
WordsOfChunks(chunks) ==
    IF chunks = <<>> THEN <<>>
    ELSE SplitWords(Head(chunks).text) \o WordsOfChunks(Tail(chunks))

\* C22: with overlap = 0 and chunk_size >= 1 the words of the chunks
\* chunk_text returns, taken in the order of the chunks, are the words of the
\* text: none is lost, repeated or moved.
C22_NoOverlapKeepsWords ==
    (ct.pc = "done" /\ ct.overlap = 0 /\ ct.chunk_size >= 1) =>
        WordsOfChunks(ct.result) = SplitWords(ct.text)

\* a text of an oversized paragraph, split in two windows, and of a paragraph
\* that fits
C22_Witness ==
    /\ ct.pc = "done"
    /\ ct.overlap = 0
    /\ ct.chunk_size >= 1
    /\ Len(ct.paragraphs) >= 2
    /\ Len(ct.split_chunks) >= 2
    /\ Len(ct.result) > Len(ct.split_chunks)

-----------------------------------------------------------------------------
(* C23: the termination of chunk_text *)

\* the arguments for which the windows of _split_long_text advance
Advancing == ct.chunk_size >= 1 /\ 0 <= ct.overlap /\ ct.overlap < ct.chunk_size

\* the arguments for which they do not
NotAdvancing == ct.chunk_size >= 1 /\ ct.overlap >= ct.chunk_size

\* C23: with chunk_size >= 1 and 0 <= overlap < chunk_size every call of
\* chunk_text returns, and each iteration of the loop of _split_long_text
\* moves the window start forward; with overlap >= chunk_size the start of
\* the window does not move forward, so a split once entered (by a paragraph
\* of more than chunk_size words) is never left and the call never returns.
C23_Terminates ==
    /\ (ct.pc = "call" /\ Advancing) ~> (ct.pc = "done")
    /\ [][(ct.pc = "split" /\ ct'.pc = "split" /\ Advancing) => ct'.start > ct.start]_vars
    /\ [][(ct.pc = "split" /\ ct'.pc = "split" /\ NotAdvancing) => ct'.start <= ct.start]_vars
    /\ [][(ct.pc = "split" /\ NotAdvancing) => ct'.pc = "split"]_vars
    /\ []((ct.pc = "split" /\ NotAdvancing) => ct.start < Len(ct.words))

\* a call that returned after a split of three windows with an overlap
C23_Witness ==
    /\ ct.pc = "done"
    /\ Advancing
    /\ ct.overlap >= 1
    /\ Len(ct.split_chunks) >= 3

\* a split that has made all the windows the model follows without advancing
C23_WitnessStuck ==
    /\ ct.pc = "split"
    /\ NotAdvancing
    /\ Len(ct.split_chunks) >= MaxChunks

-----------------------------------------------------------------------------
(* C24: the size of the chunks of chunk_text *)

\* C24: with chunk_size >= 1 and 0 <= overlap < chunk_size every chunk that
\* chunk_text returns has at most chunk_size words, the chunks that begin
\* with the words carried over from the chunk before included.
C24_ChunkWithinSize ==
    (ct.pc = "done" /\ ct.chunk_size >= 1 /\ 0 <= ct.overlap /\ ct.overlap < ct.chunk_size) =>
        \A i \in 1..Len(ct.result) :
            Len(SplitWords(ct.result[i].text)) <= ct.chunk_size

\* what holds of them: a chunk has at most chunk_size words more than the
\* overlap carried into it
ChunkWithinSizePlusOverlap ==
    (ct.pc = "done" /\ ct.chunk_size >= 1 /\ 0 <= ct.overlap /\ ct.overlap < ct.chunk_size) =>
        \A i \in 1..Len(ct.result) :
            Len(SplitWords(ct.result[i].text)) <= ct.chunk_size + ct.overlap

-----------------------------------------------------------------------------
(* C25: text files with characters of several bytes *)

\* C25: validate_file_type accepts every file with a text-like extension
\* whose whole content is valid UTF-8 and whose first bytes match no
\* signature of the table, wherever its characters of several bytes stand.
C25_ValidUtf8Accepted ==
    (/\ vf.pc = "done"
     /\ Lower(vf.suffix) \in TextExtensions
     /\ Utf8Valid(vf.data)
     /\ ~SomeSignatureMatches) =>
        vf.outcome = "ok"

\* what holds: such a file is accepted when no character of several bytes
\* lies across the end of the first HeaderLen bytes
ValidUtf8AcceptedWhenHeaderWhole ==
    (/\ vf.pc = "done"
     /\ Lower(vf.suffix) \in TextExtensions
     /\ Utf8Valid(vf.data)
     /\ ~SomeSignatureMatches) =>
        (vf.outcome = "ok" <=> Utf8Valid(Header))

-----------------------------------------------------------------------------
(* C26: the options of the chat command *)

\* the provider get_llm_provider builds from a provider name and a model name
ProviderFor(provider, model) ==
    GetLlmProvider([llm_provider |-> provider, llm_model |-> model]).llm

\* C26: when --provider or --model is given, the provider object of the
\* session is the one of the overridden provider and model, not the one of
\* the environment.
C26_OverrideSelectsProvider ==
    (cli.pc = "loop" /\ (cli.provider /= "" \/ cli.model /= "")) =>
        cli.llm = ProviderFor(IF cli.provider /= "" THEN cli.provider
                              ELSE cli.env.llm_provider,
                              IF cli.model /= "" THEN cli.model ELSE cli.env.llm_model)

\* what holds: the provider object is the one of the environment, whatever
\* the options, while the panel names the options
ProviderOfEnvironment ==
    cli.pc = "loop" =>
        /\ cli.llm = ProviderFor(cli.env.llm_provider, cli.env.llm_model)
        /\ cli.banner = <<IF cli.provider /= "" THEN cli.provider ELSE cli.env.llm_provider,
                          IF cli.model /= "" THEN cli.model ELSE cli.env.llm_model>>

-----------------------------------------------------------------------------
(* C27: the history of a session under chat *)

\* user, assistant, user, assistant, ...
Alternates(history) ==
    /\ Len(history) % 2 = 0
    /\ \A i \in 1..Len(history) :
          history[i].role = IF i % 2 = 1 THEN "user" ELSE "assistant"

\* C27: the history has an even length and alternates user, assistant; a
\* call of chat that returns appends the user message and then the
\* assistant response and nothing else; a call of chat in which the
\* retriever or the provider raises leaves the history as it was.
C27_ChatHistory ==
    /\ []Alternates(sess.history)
    /\ [][(sess.method = "chat" /\ sess'.outcome = "returned" /\ sess.outcome = "none")
             => sess'.history = sess.history
                    \o <<Message("user", sess.user_message),
                         Message("assistant", sess'.full_response)>>]_vars
    /\ [][(sess.method = "chat" /\ sess'.method = "chat" /\ sess'.outcome /= "returned")
             => sess'.history = sess.history]_vars

\* two calls of chat returned and in a third the provider raised
C27_Witness ==
    /\ sess.pc = "idle"
    /\ sess.method = "chat"
    /\ sess.outcome = "raised"
    /\ sess.messages /= <<>>
    /\ Len(sess.history) = 4
    /\ sess.history[2].content = "r1"
    /\ sess.history[4].content = "r2"

-----------------------------------------------------------------------------
(* C28: the messages sent to the provider *)

\* the last k entries of a list
LastEntries(history, k) == SubSeq(history, Len(history) - k + 1, Len(history))

\* the messages of the call in progress were built
MessagesBuilt == sess.pc \in {"chat_llm", "stream"}

\* C28: the messages sent to the provider by chat and by chat_stream are the
\* system prompt, then the most recent entries of the history in order, at
\* most max_history of them, then the new user message, for every
\* max_history >= 0 and every length of the history; the history kept by the
\* session is never shortened.
C28_HistoryWindow ==
    /\ [](MessagesBuilt =>
             sess.messages
               = <<Message("system", "prompt")>>
                   \o LastEntries(sess.history, Min(sess.max_history, Len(sess.history)))
                   \o <<Message("user", sess.user_message)>>)
    /\ [](MessagesBuilt => Len(sess.messages) <= sess.max_history + 2)
    /\ [][Len(sess'.history) >= Len(sess.history)
             /\ SubSeq(sess'.history, 1, Len(sess.history)) = sess.history]_vars

\* what holds: the window is as stated for max_history >= 1, and the whole
\* history is sent for max_history = 0
HistoryWindowFromOne ==
    MessagesBuilt =>
        sess.messages
          = <<Message("system", "prompt")>>
              \o (IF sess.max_history = 0 THEN sess.history
                  ELSE LastEntries(sess.history, Min(sess.max_history, Len(sess.history))))
              \o <<Message("user", sess.user_message)>>

-----------------------------------------------------------------------------
(* C29: the history of a session under chat_stream *)

\* the fragments of a list, joined in order
RECURSIVE Concat(_)
Concat(fragments) ==
    IF fragments = <<>> THEN "" ELSE Head(fragments) \o Concat(Tail(fragments))

\* C29: chat_stream changes the history only when the provider's stream is
\* exhausted, and then appends the user message and the assistant entry made
\* of all the fragments yielded, in order; while the stream runs, when it
\* raises and when the consumer stops iterating, the history stays as it
\* was at the call.
C29_StreamHistory ==
    /\ [][(sess.method = "chat_stream" /\ sess.outcome = "none"
              /\ sess'.outcome = "returned")
             => /\ sess.pc = "stream"
                /\ sess'.history = sess.history
                       \o <<Message("user", sess.user_message),
                            Message("assistant", Concat(sess.yielded))>>]_vars
    /\ [][(sess.method = "chat_stream" /\ sess'.method = "chat_stream"
              /\ sess'.outcome /= "returned")
             => sess'.history = sess.history]_vars

\* a stream that yielded two fragments and ended, after a call that left the
\* history empty
C29_Witness ==
    /\ sess.pc = "idle"
    /\ sess.method = "chat_stream"
    /\ sess.outcome = "returned"
    /\ sess.yielded = <<"a", "b">>
    /\ sess.calls = 2
    /\ sess.history = <<Message("user", "q2"), Message("assistant", "ab")>>

-----------------------------------------------------------------------------
(* C30: the columns _ingest_csv reads *)

\* the columns of the file of the call
CsvFields ==
    { ing.file.content.header[i] : i \in 1..Len(ing.file.content.header) }

\* C30: the chunks _ingest_csv returns for a chat-like CSV are those of the
\* content alone: whatever the iteration order of the set of columns, that
\* is under every choice of the sender, message and timestamp column among
\* the matching ones, the chunks are the ones returned.
C30_CsvDeterministic ==
    (/\ ing.pc = "returned"
     /\ Handler(Lower(ing.file.suffix)) = "csv"
     /\ DictGet(ing.meta, "format", "") = "chat_csv") =>
        \A keys \in CsvKeyChoices(CsvFields) :
            ing.result = ChunkChatMessages(CsvMessages(ing.file.content.rows, keys),
                                           settings.chunk_size, ing.meta)

\* what holds: the chunks are those of one of the choices
CsvChunksOfSomeChoice ==
    (/\ ing.pc = "returned"
     /\ Handler(Lower(ing.file.suffix)) = "csv"
     /\ DictGet(ing.meta, "format", "") = "chat_csv") =>
        \E keys \in CsvKeyChoices(CsvFields) :
            ing.result = ChunkChatMessages(CsvMessages(ing.file.content.rows, keys),
                                           settings.chunk_size, ing.meta)
====
